---- MODULE Spec2Model ----
(***************************************************************************)
(* A model of the media catalog store of src/media/__init__.py: the three  *)
(* tables (media, tags, likes), the operations of class Media on them, the *)
(* enum parsers, the predicate builder, and adjacent navigation.           *)
(*                                                                         *)
(* Python values are tagged records: a str is [k |-> "str", s |-> ...],    *)
(* an int is [k |-> "int", i |-> ...], an enum member is                   *)
(* [k |-> "member", enum |-> ..., name |-> ...], anything else "other".    *)
(* A table is a bag of rows, so that a duplicate row is representable and  *)
(* the primary keys are something the operations must maintain.            *)
(***************************************************************************)
EXTENDS Integers, Sequences, FiniteSets, Bags, TLC

VARIABLES
    media,  \* the media table: a bag of rows
    tags,   \* the tags table: a bag of rows [medium_id, tag]
    likes,  \* the likes table: a bag of rows [id, medium_id, user_id]
    inp,    \* the arguments of the pending call (specifications of pure functions)
    ret,    \* the last completed call: its name, arguments and outcome
    pc,     \* position of each concurrent caller inside its call
    loc     \* local variables of each concurrent caller

vars == <<media, tags, likes, inp, ret, pc, loc>>

----------------------------------------------------------------------------
(* Bounds of the model *)

\* medium ids are 1..MaxId (the program's 16-byte ids, compared bytewise)
MaxId == 2
\* the tables adjacent navigation is checked on hold media 1..NavMaxId
NavMaxId == 3

Ids == 1..MaxId
\* like ids are generated 16-byte ids, never compared for order here
LikeIds == {"l1", "l2"}
Users == {"u1", "u2"}

NoRet == [op |-> "none"]

----------------------------------------------------------------------------
(* Python values *)

StrV(s) == [k |-> "str", s |-> s]
IntV(i) == [k |-> "int", i |-> i]
MemV(e, n) == [k |-> "member", enum |-> e, name |-> n]
\* a bytes value, as the sequence of its bytes
BytesV(b) == [k |-> "bytes", b |-> b]
OtherV == [k |-> "other"]

----------------------------------------------------------------------------
(* The enumerations, src/media/__init__.py 50-81 *)

EnumNames == {"MediumStatus", "MediumProtection", "MediumSearchability"}

MediumStatus ==
    [FORBIDDEN |-> 0 - 2, COPYRIGHT |-> 0 - 1, ALLOWED |-> 1]

MediumProtection ==
    [NONE |-> 1, GROUPS |-> 2, PRIVATE |-> 3]

MediumSearchability ==
    [HIDDEN |-> 1, GROUPS |-> 2, PUBLIC |-> 3]

EnumOf(e) ==
    CASE e = "MediumStatus" -> MediumStatus
      [] e = "MediumProtection" -> MediumProtection
      [] e = "MediumSearchability" -> MediumSearchability

\* Enum.__int__: the integer code of a member
IntOfMember(m) == EnumOf(m.enum)[m.name]

Ok(m) == [ok |-> TRUE, member |-> m]
Raise(e) == [ok |-> FALSE, err |-> e]

\* EnumClass[name]: the member of that name, or KeyError
EnumByName(e, s) ==
    IF s \in DOMAIN EnumOf(e) THEN Ok(MemV(e, s)) ELSE Raise("KeyError")

\* EnumClass(value): the member of that code, or ValueError
EnumByValue(e, i) ==
    IF \E n \in DOMAIN EnumOf(e) : EnumOf(e)[n] = i
    THEN Ok(MemV(e, CHOOSE n \in DOMAIN EnumOf(e) : EnumOf(e)[n] = i))
    ELSE Raise("ValueError")

\* isinstance(x, EnumClass)
IsMemberOf(x, e) == x.k = "member" /\ x.enum = e

parse_status(status) ==
    IF status.k = "str" THEN EnumByName("MediumStatus", status.s)
    ELSE IF status.k = "int" THEN EnumByValue("MediumStatus", status.i)
    ELSE IF ~IsMemberOf(status, "MediumStatus") THEN Raise("TypeError")
    ELSE Ok(status)

parse_protection(protection) ==
    IF protection.k = "str" THEN EnumByName("MediumProtection", protection.s)
    ELSE IF protection.k = "int" THEN EnumByValue("MediumProtection", protection.i)
    ELSE IF ~IsMemberOf(protection, "MediumProtection") THEN Raise("TypeError")
    ELSE Ok(protection)

\* line 45 calls MediumSearchability() with no argument: the call itself
\* raises TypeError whatever the integer is
parse_searchability(searchability) ==
    IF searchability.k = "str" THEN EnumByName("MediumSearchability", searchability.s)
    ELSE IF searchability.k = "int" THEN Raise("TypeError")
    ELSE IF ~IsMemberOf(searchability, "MediumSearchability") THEN Raise("TypeError")
    ELSE Ok(searchability)

ParseOf(e, x) ==
    CASE e = "MediumStatus" -> parse_status(x)
      [] e = "MediumProtection" -> parse_protection(x)
      [] e = "MediumSearchability" -> parse_searchability(x)

----------------------------------------------------------------------------
(* Specification of the parsers: Init draws an enumeration and a value,   *)
(* the action applies the enumeration's parse function to it.             *)

AllMemberNames ==
    DOMAIN MediumStatus \cup DOMAIN MediumProtection \cup DOMAIN MediumSearchability

ParseValues ==
    {StrV(s) : s \in AllMemberNames \cup {"FAKE", "allowed"}}
    \cup {IntV(i) : i \in (0 - 3)..4}
    \cup {MemV(e, n) : e \in EnumNames, n \in AllMemberNames}
    \cup {OtherV}

\* the member values that exist: a member belongs to its own enumeration
IsPyValue(x) == x.k = "member" => x.name \in DOMAIN EnumOf(x.enum)

ParseInputs ==
    {[enum |-> e, value |-> x] : e \in EnumNames, x \in {v \in ParseValues : IsPyValue(v)}}

InitParse ==
    /\ media = EmptyBag
    /\ tags = EmptyBag
    /\ likes = EmptyBag
    /\ inp \in ParseInputs
    /\ ret = NoRet
    /\ pc = <<>>
    /\ loc = <<>>

Parse ==
    /\ ret = NoRet
    /\ ret' = [op |-> "parse", enum |-> inp.enum, value |-> inp.value,
               out |-> ParseOf(inp.enum, inp.value)]
    /\ UNCHANGED <<media, tags, likes, inp, pc, loc>>

NextParse == Parse

SpecParse == InitParse /\ [][NextParse]_vars

\* C4: for every enumeration and member M, parse of M's name, of M's integer
\* code and of M itself is M; an unknown name fails with KeyError (lookup
\* error) and an integer that is no member's code fails with ValueError.
C4_ParseRoundTrip ==
    ret.op = "parse" =>
        LET e == ret.enum
            x == ret.value
        IN  /\ (x.k = "str" /\ x.s \in DOMAIN EnumOf(e)) => ret.out = Ok(MemV(e, x.s))
            /\ (x.k = "int" /\ \E n \in DOMAIN EnumOf(e) : EnumOf(e)[n] = x.i)
                   => (ret.out.ok /\ IntOfMember(ret.out.member) = x.i
                       /\ ret.out.member.enum = e)
            /\ IsMemberOf(x, e) => ret.out = Ok(x)
            /\ (x.k = "str" /\ x.s \notin DOMAIN EnumOf(e)) => ret.out = Raise("KeyError")
            /\ (x.k = "int" /\ ~\E n \in DOMAIN EnumOf(e) : EnumOf(e)[n] = x.i)
                   => ret.out = Raise("ValueError")

----------------------------------------------------------------------------
(* The tables, src/media/__init__.py 219-279.  The model keeps the columns *)
(* the operations below read: the numeric sort columns, the three enum     *)
(* columns (stored as integer codes) and the keys.                         *)

Rows(t) == BagToSet(t)

\* primary key of media: id (line 225)
MediaPKFree(t, row) == \A q \in Rows(t) : q.id # row.id

\* primary key of tags: (medium_id, tag) (line 263)
TagsPKFree(t, rows) ==
    \A r \in rows : \A q \in Rows(t) : ~(q.medium_id = r.medium_id /\ q.tag = r.tag)

\* primary key of likes: id (line 273)
LikesPKFree(t, row) == \A q \in Rows(t) : q.id # row.id

\* rows of a table kept by DELETE ... WHERE P: the rows in `gone` are removed
Without(t, gone) == [r \in (DOMAIN t) \ gone |-> t[r]]

\* an insert into a table that has no primary key
InsertMedium_NoKey(t, row) ==
    [ok |-> TRUE, table |-> t (+) SetToBag({row})]

\* connection.execute(self.media.insert(), ...): one row, rejected as a
\* whole when its primary key is taken
InsertMedium(t, row) ==
    IF MediaPKFree(t, row)
    THEN [ok |-> TRUE, table |-> t (+) SetToBag({row})]
    ELSE [ok |-> FALSE, table |-> t]

\* connection.execute(self.tags.insert().values(rows)): one multi-row
\* statement, rejected as a whole when any row's primary key is taken
InsertTags(t, rows) ==
    IF TagsPKFree(t, rows)
    THEN [ok |-> TRUE, table |-> t (+) SetToBag(rows)]
    ELSE [ok |-> FALSE, table |-> t]

InsertLike(t, row) ==
    IF LikesPKFree(t, row)
    THEN [ok |-> TRUE, table |-> t (+) SetToBag({row})]
    ELSE [ok |-> FALSE, table |-> t]

\* the tags attached to a medium, and the rows of the other media
TagsOf(t, id) == {r.tag : r \in {q \in Rows(t) : q.medium_id = id}}
RowsOfMedium(t, id) == {q \in Rows(t) : q.medium_id = id}

----------------------------------------------------------------------------
(* Medium.__init__, lines 84-169: the arguments kw are coerced; an enum    *)
(* value that does not parse raises before any store interaction.  An      *)
(* absent id is generated and an absent time is the current time: both are *)
(* values the caller of the model draws.                                   *)

\* int.to_bytes(2, 'big') and int.from_bytes(b, 'big')
to_bytes(i) == <<i \div 256, i % 256>>

RECURSIVE from_bytes(_)
from_bytes(b) ==
    IF b = <<>> THEN 0
    ELSE 256 * from_bytes(SubSeq(b, 1, Len(b) - 1)) + b[Len(b)]

\* lines 149-153: an int becomes its 2 bytes (OverflowError when it does
\* not fit), any other value goes through bytes() as it is
GroupBits(group_bits) ==
    IF group_bits.k = "int"
    THEN IF group_bits.i \in 0..65535
         THEN [ok |-> TRUE, bytes |-> to_bytes(group_bits.i)]
         ELSE Raise("OverflowError")
    ELSE IF group_bits.k = "bytes" THEN [ok |-> TRUE, bytes |-> group_bits.b]
    ELSE Raise("TypeError")

\* lines 165-167: an absent (NULL) or zero like count is 0
LikeCountArg(like_count) == IF like_count = <<>> THEN 0 ELSE like_count[1]

Medium(kw) ==
    LET s == parse_status(kw.status)
        p == parse_protection(kw.protection)
        q == parse_searchability(kw.searchability)
        g == GroupBits(kw.group_bits)
    IN  IF ~s.ok THEN Raise(s.err)
        ELSE IF ~p.ok THEN Raise(p.err)
        ELSE IF ~q.ok THEN Raise(q.err)
        ELSE IF ~g.ok THEN Raise(g.err)
        ELSE [ok |-> TRUE,
              medium |-> [id |-> kw.id,
                          upload_time |-> kw.upload_time,
                          creation_time |-> kw.creation_time,
                          touch_time |-> kw.touch_time,
                          status |-> s.member,
                          protection |-> p.member,
                          searchability |-> q.member,
                          group_bits |-> g.bytes,
                          size |-> kw.size,
                          data1 |-> kw.data1,
                          like_count |-> LikeCountArg(kw.like_count)]]

\* the row create_medium inserts for a Medium object, lines 898-920
RowOfMedium(m) ==
    [id |-> m.id,
     upload_time |-> m.upload_time,
     creation_time |-> m.creation_time,
     touch_time |-> m.touch_time,
     status |-> IntOfMember(m.status),
     protection |-> IntOfMember(m.protection),
     searchability |-> IntOfMember(m.searchability),
     group_bits |-> from_bytes(m.group_bits),
     size |-> m.size,
     data1 |-> m.data1]

\* get_medium(id), lines 305-307: the medium of that id, if any
HasMedium(t, id) == \E q \in Rows(t) : q.id = id

\* a create_medium that replaces the row of an id that is taken
create_medium_Replace(t, kw) ==
    LET m == Medium(kw)
    IN  IF ~m.ok THEN [out |-> m.err, table |-> t]
        ELSE [out |-> "ok",
              table |-> Without(t, {q \in Rows(t) : q.id = m.medium.id})
                            (+) SetToBag({RowOfMedium(m.medium)})]

\* create_medium, lines 891-921: build the object, pre-flight check, insert
create_medium(t, kw) ==
    LET m == Medium(kw)
    IN  IF ~m.ok THEN [out |-> m.err, table |-> t]
        ELSE IF HasMedium(t, m.medium.id)
             THEN [out |-> "ValueError: Medium ID collision", table |-> t]
        ELSE LET ins == InsertMedium(t, RowOfMedium(m.medium))
             IN  IF ins.ok THEN [out |-> "ok", table |-> ins.table]
                 ELSE [out |-> "IntegrityError", table |-> t]

\* the three DELETE statements of delete_medium, lines 966-976
delete_medium_media(t, id) == Without(t, {q \in Rows(t) : q.id = id})
delete_medium_tags(t, id) == Without(t, {q \in Rows(t) : q.medium_id = id})
\* a delete_medium that leaves the like rows behind
delete_medium_likes_Kept(t, id) == t

delete_medium_likes(t, id) == Without(t, {q \in Rows(t) : q.medium_id = id})

----------------------------------------------------------------------------
(* Tag operations.  An argument that may be a list or a single value is a  *)
(* record [islist, items]: a single value v is [islist |-> FALSE,          *)
(* items |-> <<v>>].                                                       *)

ListArg(items) == [items |-> items, islist |-> TRUE]
OneArg(v) == [items |-> <<v>>, islist |-> FALSE]

Elems(seq) == {seq[i] : i \in DOMAIN seq}

\* `if list != type(x): x = [x]` followed by list(set(x))
AsSet(x) == Elems(x.items)

\* Python truthiness of a list or str argument: `not x`
Falsy(x) == IF x.islist THEN x.items = <<>> ELSE x.items[1] = ""

\* the rows add_tags builds, lines 1060-1069
AddTagRows(medium_ids, taglist) ==
    {[medium_id |-> i, tag |-> g] : i \in AsSet(medium_ids), g \in AsSet(taglist) \ {""}}

\* add_tags, lines 1055-1074
add_tags(t, medium_ids, taglist) ==
    LET rows == AddTagRows(medium_ids, taglist)
    IN  IF rows = {} THEN [out |-> "ok", table |-> t]
        ELSE LET ins == InsertTags(t, rows)
             IN  IF ins.ok THEN [out |-> "ok", table |-> ins.table]
                 ELSE [out |-> "IntegrityError", table |-> t]

\* or_(*conditions) in a WHERE clause: an or_() of no conditions compiles to
\* no clause at all, and the statement then selects every row
OrOfNone(conds) == conds = {}

\* a remove_tags that keeps the first of the rows it should delete
remove_tags_KeepsOne(t, medium_ids, taglist) ==
    LET gone == {q \in Rows(t) : q.medium_id \in AsSet(medium_ids)}
    IN  IF gone = {} THEN t
        ELSE Without(t, gone \ {CHOOSE q \in gone : TRUE})

\* remove_tags, lines 1076-1103
remove_tags(t, medium_ids, taglist) ==
    LET ids == AsSet(medium_ids)
        byId(q) == OrOfNone(ids) \/ q.medium_id \in ids
        tagset == AsSet(taglist) \ {""}
        byTag(q) == OrOfNone(tagset) \/ q.tag \in tagset
    IN  IF Falsy(taglist)
        THEN Without(t, {q \in Rows(t) : byId(q)})
        ELSE Without(t, {q \in Rows(t) : byId(q) /\ byTag(q)})

\* a set_tags that adds without removing first
set_tags_AddOnly(t, medium_ids, taglist) ==
    add_tags(t, medium_ids, taglist)

\* set_tags, lines 1051-1053: remove_tags(medium_ids), then add_tags
set_tags(t, medium_ids, taglist) ==
    add_tags(remove_tags(t, medium_ids, ListArg(<<>>)), medium_ids, taglist)

----------------------------------------------------------------------------
(* Like operations, lines 1313-1337.  The id of a new like is generated:   *)
(* the caller of the model draws it.                                       *)

create_like(t, id, medium_id, user_id) ==
    IF \E q \in Rows(t) : q.id = id
    THEN [out |-> "ValueError: Like ID collision", table |-> t]
    ELSE LET ins == InsertLike(t, [id |-> id, medium_id |-> medium_id, user_id |-> user_id])
         IN  IF ins.ok THEN [out |-> "ok", table |-> ins.table]
             ELSE [out |-> "IntegrityError", table |-> t]

delete_like(t, id) == Without(t, {q \in Rows(t) : q.id = id})

delete_user_likes(t, user_id) == Without(t, {q \in Rows(t) : q.user_id = user_id})


----------------------------------------------------------------------------
(* The store as a state machine: Init is the store after construction      *)
(* (empty tables), and every step is one completed call of class Media.    *)

DefaultKw ==
    [id |-> 1, upload_time |-> 0, creation_time |-> 0, touch_time |-> 0,
     status |-> MemV("MediumStatus", "ALLOWED"),
     protection |-> MemV("MediumProtection", "NONE"),
     searchability |-> MemV("MediumSearchability", "HIDDEN"),
     group_bits |-> IntV(0), size |-> 0, data1 |-> 0, like_count |-> <<>>]

\* arguments of create_medium in this specification
CreateKws ==
    {[DefaultKw EXCEPT !.id = i, !.size = z, !.status = st] :
        i \in Ids, z \in 0..1,
        st \in {MemV("MediumStatus", "ALLOWED"), StrV("FAKE")}}

IdArgs == {OneArg(i) : i \in Ids} \cup {ListArg(<<1, 2>>)}

TagArgs ==
    {ListArg(<<>>), ListArg(<<"a">>), ListArg(<<"b">>), ListArg(<<"a", "b">>),
     ListArg(<<"c">>), ListArg(<<"a", "a">>), ListArg(<<"", "b">>), OneArg("a")}

Init ==
    /\ media = EmptyBag
    /\ tags = EmptyBag
    /\ likes = EmptyBag
    /\ inp = <<>>
    /\ ret = NoRet
    /\ pc = <<>>
    /\ loc = <<>>

CreateMedium(kw) ==
    LET r == create_medium(media, kw)
    IN  /\ media' = r.table
        /\ ret' = [op |-> "create_medium", kw |-> kw, out |-> r.out]
        /\ UNCHANGED <<tags, likes, inp, pc, loc>>

DeleteMedium(id) ==
    /\ media' = delete_medium_media(media, id)
    /\ tags' = delete_medium_tags(tags, id)
    /\ likes' = delete_medium_likes(likes, id)
    /\ ret' = [op |-> "delete_medium", id |-> id,
               hit |-> /\ HasMedium(media, id)
                       /\ RowsOfMedium(tags, id) # {}
                       /\ RowsOfMedium(likes, id) # {}]
    /\ UNCHANGED <<inp, pc, loc>>

AddTags(medium_ids, taglist) ==
    LET r == add_tags(tags, medium_ids, taglist)
    IN  /\ tags' = r.table
        /\ ret' = [op |-> "add_tags", ids |-> medium_ids, tagarg |-> taglist,
                   out |-> r.out]
        /\ UNCHANGED <<media, likes, inp, pc, loc>>

RemoveTags(medium_ids, taglist) ==
    /\ tags' = remove_tags(tags, medium_ids, taglist)
    /\ ret' = [op |-> "remove_tags", ids |-> medium_ids, tagarg |-> taglist]
    /\ UNCHANGED <<media, likes, inp, pc, loc>>

\* the rows of the media a call on medium_ids is not about
OtherRows(t, medium_ids) == {q \in Rows(t) : q.medium_id \notin AsSet(medium_ids)}

\* ret of set_tags also remembers whether the call directly follows a
\* set_tags on the same media, with which tags, and what the other media's
\* rows were before the first of the two calls
SetTags(medium_ids, taglist) ==
    LET r == set_tags(tags, medium_ids, taglist)
        chained == ret.op = "set_tags" /\ ret.ids = medium_ids
    IN  /\ tags' = r.table
        /\ ret' = [op |-> "set_tags", ids |-> medium_ids, tagarg |-> taglist,
                   out |-> r.out,
                   chained |-> chained,
                   first |-> IF chained THEN ret.tagarg ELSE ListArg(<<>>),
                   others0 |-> IF chained THEN ret.others0
                               ELSE OtherRows(tags, medium_ids)]
        /\ UNCHANGED <<media, likes, inp, pc, loc>>

CreateLike(id, medium_id, user_id) ==
    LET r == create_like(likes, id, medium_id, user_id)
    IN  /\ likes' = r.table
        /\ ret' = [op |-> "create_like", id |-> id, out |-> r.out]
        /\ UNCHANGED <<media, tags, inp, pc, loc>>

DeleteLike(id) ==
    /\ likes' = delete_like(likes, id)
    /\ ret' = [op |-> "delete_like", id |-> id]
    /\ UNCHANGED <<media, tags, inp, pc, loc>>

DeleteUserLikes(user_id) ==
    /\ likes' = delete_user_likes(likes, user_id)
    /\ ret' = [op |-> "delete_user_likes", user |-> user_id]
    /\ UNCHANGED <<media, tags, inp, pc, loc>>

Next ==
    \/ \E kw \in CreateKws : CreateMedium(kw)
    \/ \E id \in Ids : DeleteMedium(id)
    \/ \E id \in Ids : AddTags(OneArg(id), OneArg("a"))
    \/ \E id \in LikeIds, m \in Ids, u \in Users : CreateLike(id, m, u)
    \/ \E id \in LikeIds : DeleteLike(id)
    \/ \E u \in Users : DeleteUserLikes(u)

Spec == Init /\ [][Next]_vars

\* every table keeps its primary key: no row is stored twice and no two
\* rows share a key
PrimaryKeys ==
    /\ \A r \in Rows(media) : CopiesIn(r, media) = 1
    /\ \A r, q \in Rows(media) : r.id = q.id => r = q
    /\ \A r \in Rows(tags) : CopiesIn(r, tags) = 1
    /\ \A r \in Rows(likes) : CopiesIn(r, likes) = 1
    /\ \A r, q \in Rows(likes) : r.id = q.id => r = q

----------------------------------------------------------------------------
(* The tag store alone: every step is one completed tag call, with list or *)
(* single arguments, duplicates and empty strings among the tags.          *)

NextTags ==
    \/ \E i \in IdArgs, g \in TagArgs : AddTags(i, g)
    \/ \E i \in IdArgs, g \in TagArgs : RemoveTags(i, g)
    \/ \E i \in IdArgs, g \in TagArgs : SetTags(i, g)

SpecTags == Init /\ [][NextTags]_vars

----------------------------------------------------------------------------
(* Claims about the tag store *)

\* the tags a call attaches: the non-empty members of its tag argument
Given(taglist) == AsSet(taglist) \ {""}

\* C5: add_tags is idempotent per (medium, tag) pair: whatever is attached
\* already, the call succeeds and leaves every addressed medium with the
\* union of its old tags and the given ones, each pair stored once.
C5_AddTagsIdempotent ==
    [][ret'.op = "add_tags" =>
        /\ ret'.out = "ok"
        /\ \A i \in Ids :
              TagsOf(tags', i) =
                  TagsOf(tags, i) \cup
                      (IF i \in AsSet(ret'.ids) THEN Given(ret'.tagarg) ELSE {})
        /\ \A r \in Rows(tags') : CopiesIn(r, tags') = 1]_vars

\* C6: after set_tags(ids, T1) directly followed by set_tags(ids, T2) the
\* addressed media carry exactly the non-empty members of T2, whatever T1
\* was, and the rows of every other medium are what they were before the
\* first call.
C6_SetTagsTwice ==
    (ret.op = "set_tags" /\ ret.chained) =>
        /\ ret.out = "ok"
        /\ \A i \in AsSet(ret.ids) : TagsOf(tags, i) = Given(ret.tagarg)
        /\ OtherRows(tags, ret.ids) = ret.others0
        /\ \A r \in Rows(tags) : CopiesIn(r, tags) = 1

C6_Witness ==
    /\ ret.op = "set_tags" /\ ret.chained
    /\ ret.ids = OneArg(1)
    /\ ret.first = ListArg(<<"a", "b">>)
    /\ ret.tagarg = ListArg(<<"c">>)
    /\ TagsOf(tags, 1) = {"c"}
    /\ TagsOf(tags, 2) = {"a", "b"}

----------------------------------------------------------------------------
(* Claims about media rows *)

\* C7: after delete_medium(id) no media, tag or like row has that medium id,
\* and every row of every other medium is kept as it was.
C7_DeleteMediumCascade ==
    [][ret'.op = "delete_medium" =>
        LET id == ret'.id
        IN  /\ \A r \in Rows(media') : r.id # id
            /\ \A r \in Rows(tags') : r.medium_id # id
            /\ \A r \in Rows(likes') : r.medium_id # id
            /\ \A r \in Rows(media) \cup Rows(media') :
                  r.id # id => CopiesIn(r, media') = CopiesIn(r, media)
            /\ \A r \in Rows(tags) \cup Rows(tags') :
                  r.medium_id # id => CopiesIn(r, tags') = CopiesIn(r, tags)
            /\ \A r \in Rows(likes) \cup Rows(likes') :
                  r.medium_id # id => CopiesIn(r, likes') = CopiesIn(r, likes)]_vars

\* a medium with tag and like rows was deleted while another medium with
\* tag and like rows stays
C7_Witness ==
    /\ ret.op = "delete_medium" /\ ret.hit
    /\ \E o \in Ids \ {ret.id} :
          /\ HasMedium(media, o)
          /\ RowsOfMedium(tags, o) # {}
          /\ RowsOfMedium(likes, o) # {}

\* C8: create_medium with accepted arguments and an id that is already in
\* the media table raises the collision error and changes no table.
C8_CreateCollision ==
    [][(ret'.op = "create_medium" /\ Medium(ret'.kw).ok /\ HasMedium(media, ret'.kw.id)) =>
        /\ ret'.out = "ValueError: Medium ID collision"
        /\ media' = media
        /\ tags' = tags
        /\ likes' = likes]_vars

\* a collision with a row whose field values differ from the arguments
C8_Witness ==
    /\ ret.op = "create_medium"
    /\ ret.out = "ValueError: Medium ID collision"
    /\ \E q \in Rows(media) : q.id = ret.kw.id /\ q.size # ret.kw.size

----------------------------------------------------------------------------
(* Two concurrent create_medium calls with the same id.  A call is three   *)
(* steps, each one statement against the store: the pre-flight SELECT of   *)
(* get_medium (line 894), the INSERT (lines 898-920), which the store      *)
(* rejects when the primary key is taken, and the return.  Init draws the  *)
(* id, each caller's field values and the rows already stored.             *)

Callers == {1, 2}

\* media tables holding at most one row per id
MediaTables ==
    {SetToBag({RowOfMedium(Medium(kw).medium) : kw \in K}) :
        K \in {K \in SUBSET {kw \in CreateKws : Medium(kw).ok} :
                  \A a, b \in K : a.id = b.id => a = b}}

InitCreateRace ==
    /\ media \in MediaTables
    /\ tags = EmptyBag
    /\ likes = EmptyBag
    /\ inp = <<>>
    /\ ret = NoRet
    /\ pc = [p \in Callers |-> "start"]
    /\ \E i \in Ids :
          loc \in [Callers -> {kw \in CreateKws : Medium(kw).ok /\ kw.id = i}]

\* collision_medium = self.get_medium(medium.id_bytes); raise if found
Preflight(p) ==
    /\ pc[p] = "start"
    /\ pc' = [pc EXCEPT ![p] =
                 IF HasMedium(media, loc[p].id) THEN "collision" ELSE "checked"]
    /\ UNCHANGED <<media, tags, likes, inp, ret, loc>>

\* self.connection.execute(self.media.insert(), ...); return medium
InsertStep(p) ==
    /\ pc[p] = "checked"
    /\ LET ins == InsertMedium(media, RowOfMedium(Medium(loc[p]).medium))
       IN  /\ media' = ins.table
           /\ pc' = [pc EXCEPT ![p] = IF ins.ok THEN "returned" ELSE "integrity"]
    /\ UNCHANGED <<tags, likes, inp, ret, loc>>

NextCreateRace == \E p \in Callers : Preflight(p) \/ InsertStep(p)

SpecCreateRace == InitCreateRace /\ [][NextCreateRace]_vars

\* C9: under every interleaving of two create_medium calls with the same id
\* the media table never holds two rows of that id and at most one call
\* returns a medium; a call that has ended without returning has raised,
\* from the pre-flight check or from the primary key at the insert.
C9_CreateRace ==
    /\ \A r \in Rows(media) : CopiesIn(r, media) = 1
    /\ \A r, q \in Rows(media) : r.id = q.id => r = q
    /\ Cardinality({p \in Callers : pc[p] = "returned"}) <= 1
    /\ \A p \in Callers :
          pc[p] \in {"start", "checked", "returned", "collision", "integrity"}

\* both callers passed the pre-flight check; one inserted and returned, the
\* other was stopped by the primary key
C9_Witness ==
    /\ \E p, q \in Callers : pc[p] = "returned" /\ pc[q] = "integrity"
    /\ loc[1] # loc[2]

----------------------------------------------------------------------------
(* set_tags(id, new) running beside a reader.  The writer's call is two    *)
(* statements (lines 1052-1053): the DELETE of remove_tags and the one     *)
(* multi-row INSERT of add_tags.  The reader's SELECT (search_tags, lines  *)
(* 994-1028) may run before, between or after them.  Init draws the        *)
(* medium, its old tags and the new tag argument.                          *)

\* the medium i carries the tags old, every other medium the tag "a"
TagTable(i, old) ==
    SetToBag({[medium_id |-> i, tag |-> g] : g \in old} \cup
             {[medium_id |-> o, tag |-> "a"] : o \in Ids \ {i}})

InitSetTagsRace ==
    /\ media = EmptyBag
    /\ likes = EmptyBag
    /\ \E i \in Ids, old \in SUBSET {"a", "b", "c"}, g \in TagArgs :
          /\ tags = TagTable(i, old)
          /\ inp = [id |-> i, old |-> old, new |-> g]
    /\ ret = NoRet
    /\ pc = [w |-> "start"]
    /\ loc = <<>>

WriterRemove ==
    /\ pc.w = "start"
    /\ tags' = remove_tags(tags, OneArg(inp.id), ListArg(<<>>))
    /\ pc' = [pc EXCEPT !.w = "removed"]
    /\ UNCHANGED <<media, likes, inp, ret, loc>>

WriterAdd ==
    /\ pc.w = "removed"
    /\ LET r == add_tags(tags, OneArg(inp.id), inp.new)
       IN  /\ tags' = r.table
           /\ pc' = [pc EXCEPT !.w = IF r.out = "ok" THEN "done" ELSE "raised"]
    /\ UNCHANGED <<media, likes, inp, ret, loc>>

ReaderRead ==
    /\ ret' = [op |-> "read", seen |-> TagsOf(tags, inp.id), at |-> pc.w]
    /\ UNCHANGED <<media, tags, likes, inp, pc, loc>>

NextSetTagsRace == WriterRemove \/ WriterAdd \/ ReaderRead

SpecSetTagsRace == InitSetTagsRace /\ [][NextSetTagsRace]_vars

\* C10: a reader beside set_tags(id, new) sees the old tag set before the
\* remove step, the empty set between the two steps and the new tag set
\* after the add step, never a mixture; the writer's call does not raise.
C10_ReaderSees ==
    /\ pc.w # "raised"
    /\ ret.op = "read" =>
          /\ ret.at = "start" => ret.seen = inp.old
          /\ ret.at = "removed" => ret.seen = {}
          /\ ret.at = "done" => ret.seen = Given(inp.new)
          /\ ret.seen \in {inp.old, {}, Given(inp.new)}

\* the reader saw the empty set between the steps of a call that replaces
\* a non-empty old set by a different non-empty new set
C10_Witness ==
    /\ ret.op = "read" /\ ret.at = "removed" /\ ret.seen = {}
    /\ inp.old = {"a", "b"} /\ Given(inp.new) = {"c"}
    /\ pc.w = "done" /\ TagsOf(tags, inp.id) = {"c"}

----------------------------------------------------------------------------
(* Queries.  A condition is a record the store evaluates on a row; a       *)
(* nullable SQL value is <<>> (NULL) or <<v>>.                             *)

Null == <<>>
Val(v) == <<v>>

\* a like count that counts the users who like the medium
LikeCount_Users(lk, id) ==
    LET n == Cardinality({q.user_id : q \in {x \in DOMAIN lk : x.medium_id = id}})
    IN  IF n = 0 THEN Null ELSE Val(n)

\* the like count joined to a media row (lines 504-516): the number of like
\* rows of the medium, NULL for a medium the outer join finds no likes for
LikeCount(lk, id) ==
    LET n == BagCardinality([r \in {q \in DOMAIN lk : q.medium_id = id} |-> lk[r]])
    IN  IF n = 0 THEN Null ELSE Val(n)

\* the value of a column of the joined row
ColVal(lk, row, col) ==
    IF col = "like_count" THEN LikeCount(lk, row.id) ELSE Val(row[col])

\* SQL comparison: unknown (not true) when an operand is NULL
SqlCmp(a, op, b) ==
    /\ a # Null
    /\ b # Null
    /\ CASE op = "=" -> a[1] = b[1]
         [] op = "<" -> a[1] < b[1]
         [] op = ">" -> a[1] > b[1]

CondFalse == [kind |-> "false"]
CondIn(col, vals) == [kind |-> "in", col |-> col, vals |-> vals]
CondNotIn(col, vals) == [kind |-> "notin", col |-> col, vals |-> vals]
CondCmp(col, op, v) == [kind |-> "cmp", col |-> col, op |-> op, v |-> v]
CondLikedBy(user) == [kind |-> "likedby", user |-> user]
CondTagIn(like, pat) == [kind |-> "tagin", like |-> like, pat |-> pat]
CondTagNotIn(like, pat) == [kind |-> "tagnotin", like |-> like, pat |-> pat]

\* the characters of the tags and patterns of tag filters
Spell ==
    ("" :> <<>>) @@ ("a" :> <<"a">>) @@ ("b" :> <<"b">>) @@ ("c" :> <<"c">>)
    @@ ("ab" :> <<"a", "b">>) @@ ("A" :> <<"A">>) @@ ("%" :> <<"%">>)
    @@ ("a%" :> <<"a", "%">>) @@ ("_" :> <<"_">>) @@ ("\\%" :> <<"\\", "%">>)

\* sqlite LIKE compares ASCII letters without regard to case
Fold(ch) == IF ch = "A" THEN "a" ELSE ch

\* text LIKE pattern ESCAPE '\': % matches any run of characters, _ any one
\* character, and the character after the escape matches itself
RECURSIVE like(_, _)
like(text, pat) ==
    IF pat = <<>> THEN text = <<>>
    ELSE IF Head(pat) = "\\" /\ Len(pat) > 1
         THEN /\ text # <<>>
              /\ Fold(Head(text)) = Fold(pat[2])
              /\ like(Tail(text), SubSeq(pat, 3, Len(pat)))
    ELSE IF Head(pat) = "%"
         THEN \E k \in 0..Len(text) :
                  like(SubSeq(text, k + 1, Len(text)), Tail(pat))
    ELSE /\ text # <<>>
         /\ (Head(pat) = "_" \/ Fold(Head(text)) = Fold(Head(pat)))
         /\ like(Tail(text), Tail(pat))

\* the tag rows a tag condition of lines 437-456 selects
TagMatches(tag, c) ==
    IF c.like THEN like(Spell[tag], Spell[c.pat]) ELSE tag = c.pat

Holds(lk, row, c) ==
    CASE c.kind = "false" -> FALSE
      [] c.kind = "in" -> row[c.col] \in c.vals
      [] c.kind = "notin" -> row[c.col] \notin c.vals
      [] c.kind = "cmp" -> SqlCmp(ColVal(lk, row, c.col), c.op, c.v)
      [] c.kind = "tagin" ->
             \E q \in Rows(tags) : q.medium_id = row.id /\ TagMatches(q.tag, c)
      [] c.kind = "tagnotin" ->
             ~\E q \in Rows(tags) : q.medium_id = row.id /\ TagMatches(q.tag, c)
      [] c.kind = "likedby" ->
             \E q \in Rows(lk) : q.medium_id = row.id /\ q.user_id = c.user

\* the integer codes of the values of a filter entry that parse, lines
\* 349-355 and 366-372: a value that raises is passed over
ParsedCodes(e, arg) ==
    {IntOfMember(ParseOf(e, v).member) : v \in {x \in AsSet(arg) : ParseOf(e, x).ok}}

\* the condition of a with_<field> entry, lines 343-359
WithBlock(e, col, arg) ==
    IF ParsedCodes(e, arg) # {} THEN CondIn(col, ParsedCodes(e, arg)) ELSE CondFalse

\* the condition of a without_<field> entry, lines 360-377
WithoutBlock(e, col, arg) ==
    IF ParsedCodes(e, arg) # {} THEN CondNotIn(col, ParsedCodes(e, arg)) ELSE CondFalse

EnumFilters ==
    <<[field |-> "statuses", enum |-> "MediumStatus", col |-> "status"],
      [field |-> "protections", enum |-> "MediumProtection", col |-> "protection"],
      [field |-> "searchabilities", enum |-> "MediumSearchability",
       col |-> "searchability"]>>

WithKey(f) == "with_" \o f.field
WithoutKey(f) == "without_" \o f.field

\* the conditions of one tag entry of a filter, lines 437-472: one
\* containment test per supplied tag or pattern
TagBlock(filter, key, without, islike) ==
    IF key \in DOMAIN filter
    THEN [k \in DOMAIN filter[key].items |->
             IF without THEN CondTagNotIn(islike, filter[key].items[k])
             ELSE CondTagIn(islike, filter[key].items[k])]
    ELSE <<>>

\* a tag filter that tests the first with_ tag or pattern only
tag_conditions_FirstWith(filter) ==
    LET with == TagBlock(filter, "with_tags", FALSE, FALSE)
                \o TagBlock(filter, "with_tags_like", FALSE, TRUE)
    IN  (IF with = <<>> THEN <<>> ELSE <<with[1]>>)
        \o TagBlock(filter, "without_tags", TRUE, FALSE)
        \o TagBlock(filter, "without_tags_like", TRUE, TRUE)

\* the tag conditions of a filter, lines 429-472: with_ entries first
tag_conditions(filter) ==
    TagBlock(filter, "with_tags", FALSE, FALSE)
    \o TagBlock(filter, "with_tags_like", FALSE, TRUE)
    \o TagBlock(filter, "without_tags", TRUE, FALSE)
    \o TagBlock(filter, "without_tags_like", TRUE, TRUE)

\* prepare_media_search_conditions, lines 309-474, for the enum and tag
\* entries of a filter: a filter is a function from its keys to their values
prepare_media_search_conditions(filter) ==
    LET block(f) ==
            (IF WithKey(f) \in DOMAIN filter
             THEN <<WithBlock(f.enum, f.col, filter[WithKey(f)])>> ELSE <<>>)
            \o
            (IF WithoutKey(f) \in DOMAIN filter
             THEN <<WithoutBlock(f.enum, f.col, filter[WithoutKey(f)])>> ELSE <<>>)
    IN  block(EnumFilters[1]) \o block(EnumFilters[2]) \o block(EnumFilters[3])
        \o tag_conditions(filter)

\* parse_id of a user id: the id, or an error for a value that is no id
parse_id(x) == IF x \in Users THEN [ok |-> TRUE, id |-> x] ELSE Raise("Exception")

\* a liked_by_user entry taken as the user id whatever it is
liked_by_user_Unchecked(filter) ==
    IF "liked_by_user" \in DOMAIN filter THEN <<filter.liked_by_user>> ELSE <<>>

\* the user id of the liked_by_user entry of a filter, lines 480-489: none
\* when the entry is absent or does not parse
liked_by_user(filter) ==
    IF "liked_by_user" \in DOMAIN filter /\ parse_id(filter.liked_by_user).ok
    THEN <<parse_id(filter.liked_by_user).id>> ELSE <<>>

\* the like rows the like counts are aggregated from, lines 489-508: those
\* of the user of liked_by_user, or all
like_counts(lk, filter) ==
    IF liked_by_user(filter) = <<>> THEN lk
    ELSE [q \in {r \in DOMAIN lk : r.user_id = liked_by_user(filter)[1]} |-> lk[q]]

\* prepare_media_search_statement, lines 476-521: the rows of media that
\* satisfy every condition; with no conditions given they are built from
\* the filter, and a liked_by_user entry adds the condition that the user
\* has liked the medium
Statement(t, lk, filter, conditions) ==
    LET conds == (IF conditions = <<>> THEN prepare_media_search_conditions(filter)
                  ELSE conditions)
                 \o (IF liked_by_user(filter) = <<>> THEN <<>>
                     ELSE <<CondLikedBy(liked_by_user(filter)[1])>>)
        counts == like_counts(lk, filter)
    IN  {r \in Rows(t) : \A k \in DOMAIN conds : Holds(counts, r, conds[k])}

\* count_media, lines 523-526
count_media(t, lk, filter) == Cardinality(Statement(t, lk, filter, <<>>))

----------------------------------------------------------------------------
(* Ordering.  A sort key is [col, dir], or [text, dir] for a text          *)
(* expression over the id; a NULL sorts before every value in ascending    *)
(* order (as sqlite orders it).                                            *)

Asc(col) == [col |-> col, dir |-> "asc"]
Desc(col) == [col |-> col, dir |-> "desc"]

NullableLess(a, b) ==
    IF a = Null THEN b # Null ELSE (b # Null /\ a[1] < b[1])

\* hex(id): the 32 hex digits of a 16-byte id, most significant first
HexOfId(id) ==
    [p \in 1..32 |-> IF p = 32 THEN id % 16
                     ELSE IF p = 31 THEN (id \div 16) % 16 ELSE 0]

\* sqlite substr(X, Y, Z): the characters of X at positions Y..Y+Z-1
substr(x, y, z) ==
    LET from == IF y < 1 THEN 1 ELSE y
        to == IF y + z - 1 > Len(x) THEN Len(x) ELSE y + z - 1
    IN  SubSeq(x, from, to)

\* the text expression of lines 558-569 for one row:
\* substr(hex(id), start, start + 1) || ... over the drawn starts
RECURSIVE pseudo_rand(_, _)
pseudo_rand(id, starts) ==
    IF starts = <<>> THEN <<>>
    ELSE substr(HexOfId(id), Head(starts), Head(starts) + 1)
             \o pseudo_rand(id, Tail(starts))

\* text comparison, character by character: u is less than v when, at the
\* first position where they differ, u has ended or has the lesser character
TextLess(u, v) ==
    \E k \in 1..Len(v) :
        /\ k - 1 <= Len(u)
        /\ \A j \in 1..(k - 1) : u[j] = v[j]
        /\ (k > Len(u) \/ u[k] < v[k])

IsTextKey(key) == "text" \in DOMAIN key

\* the value of a sort key for a row
KeyVal(lk, row, key) ==
    IF IsTextKey(key) THEN Val(pseudo_rand(row.id, key.text))
    ELSE ColVal(lk, row, key.col)

KeyLess(key, x, y) ==
    IF IsTextKey(key) THEN TextLess(x[1], y[1]) ELSE NullableLess(x, y)

\* row a is ordered strictly before row b under the keys
RECURSIVE Before(_, _, _, _)
Before(lk, a, b, keys) ==
    IF keys = <<>> THEN FALSE
    ELSE LET x == KeyVal(lk, a, Head(keys))
             y == KeyVal(lk, b, Head(keys))
         IN  IF x = y THEN Before(lk, a, b, Tail(keys))
             ELSE IF Head(keys).dir = "asc" THEN KeyLess(Head(keys), x, y)
             ELSE KeyLess(Head(keys), y, x)

\* the rows in the order of ORDER BY keys: each next row is one that no
\* remaining row is ordered before
RECURSIVE OrderBy(_, _, _)
OrderBy(lk, rows, keys) ==
    IF rows = {} THEN <<>>
    ELSE LET first == CHOOSE x \in rows :
                          \A y \in rows \ {x} : ~Before(lk, y, x, keys)
         IN  <<first>> \o OrderBy(lk, rows \ {first}, keys)

Limit1(seq) == IF seq = <<>> THEN <<>> ELSE <<seq[1]>>

MediaColumns ==
    {"id", "upload_time", "creation_time", "touch_time", "status", "protection",
     "searchability", "group_bits", "size", "data1"}

\* the direction a direction token stands for in sort_statement: descending
\* unless the token is 'asc'
Direction(order) == IF order = "asc" THEN "asc" ELSE "desc"

\* sort_statement(statement, self.media, sort, order, 'creation_time', True,
\* ['creation_time', 'id']) of lines 586-597: the requested column, or
\* creation_time for a token that names no column, then creation_time, then
\* id, all in the requested direction, descending unless 'asc'
sort_statement(sort, order) ==
    LET col == IF sort \in MediaColumns THEN sort ELSE "creation_time"
        d == Direction(order)
    IN  <<[col |-> col, dir |-> d], [col |-> "creation_time", dir |-> d],
          [col |-> "id", dir |-> d]>>

\* the process-wide generator of module random: a deterministic generator
\* whose state seed(a) sets from a, and randint(0, 31) draws the next value
RngStates == 0..31
rng_seed(a) == a % 32
rng_next(state) == (state + 1) % 32

\* n successive random.randint(0, 31) from a state
RECURSIVE randints(_, _)
randints(state, n) ==
    IF n = 0 THEN <<>>
    ELSE <<rng_next(state)>> \o randints(rng_next(state), n - 1)

\* the seed tokens of a random sort and int.from_bytes(get_id_bytes(token))
SeedOf == [a |-> 3, b |-> 20, c |-> 35]
RandomSorts == {"random:" \o k : k \in DOMAIN SeedOf}
SeedOfSort(sort) == SeedOf[CHOOSE k \in DOMAIN SeedOf : sort = "random:" \o k]

\* a random sort that draws from the generator as it finds it
random_order_Unseeded(sort, order, rng) ==
    LET d == IF order # "asc" THEN "desc" ELSE order
    IN  <<[text |-> randints(rng, 8), dir |-> "asc"],
          [col |-> "creation_time", dir |-> d], [col |-> "id", dir |-> d]>>

\* the ORDER BY of a random sort on sqlite, lines 551-581: seed the
\* generator, draw 8 starts, order by the text expression (no direction
\* given), then by creation_time and id in the direction
random_order(sort, order, rng) ==
    LET d == IF order # "asc" THEN "desc" ELSE order
    IN  <<[text |-> randints(rng_seed(SeedOfSort(sort)), 8), dir |-> "asc"],
          [col |-> "creation_time", dir |-> d], [col |-> "id", dir |-> d]>>

\* a likes sort without the id tie-break
order_by_LikesAlone(sort, order, rng) ==
    IF sort \in RandomSorts
    THEN [ok |-> TRUE, keys |-> random_order(sort, order, rng), reseeded |-> TRUE]
    ELSE IF sort = "likes"
    THEN IF order \in {"asc", "desc"}
         THEN [ok |-> TRUE, reseeded |-> FALSE,
               keys |-> <<[col |-> "like_count", dir |-> order]>>]
         ELSE Raise("AttributeError")
    ELSE [ok |-> TRUE, keys |-> sort_statement(sort, order), reseeded |-> FALSE]

\* the ORDER BY of search_media, lines 543-597: getattr(column, order)
\* exists for 'asc' and 'desc' only
order_by(sort, order, rng) ==
    IF sort \in RandomSorts
    THEN [ok |-> TRUE, keys |-> random_order(sort, order, rng), reseeded |-> TRUE]
    ELSE IF sort = "likes"
    THEN IF order \in {"asc", "desc"}
         THEN [ok |-> TRUE, reseeded |-> FALSE,
               keys |-> <<[col |-> "like_count", dir |-> order],
                          [col |-> "id", dir |-> order]>>]
         ELSE Raise("AttributeError")
    ELSE [ok |-> TRUE, keys |-> sort_statement(sort, order), reseeded |-> FALSE]

\* search_media without pagination, lines 533-628: the rows of the filtered
\* view in their order; `reseeded` tells that random.seed() has left the
\* generator in a state drawn from the system
search_media(t, lk, filter, sort, order, rng) ==
    LET o == order_by(sort, order, rng)
    IN  IF ~o.ok THEN o
        ELSE [ok |-> TRUE, reseeded |-> o.reseeded, keys |-> o.keys,
              result |-> OrderBy(like_counts(lk, filter),
                                 Statement(t, lk, filter, <<>>), o.keys)]

----------------------------------------------------------------------------
(* Adjacent navigation *)

None == <<>>
Some(row) == <<row>>

\* capture_adjacent_media_from_result, lines 642-708: the rows directly
\* before and after the reference medium in the result
capture_adjacent_media_from_result(medium, result) ==
    IF \E k \in DOMAIN result : result[k].id = medium.id
    THEN LET k == CHOOSE j \in DOMAIN result : result[j].id = medium.id
         IN  [prev |-> IF k > 1 THEN Some(result[k - 1]) ELSE None,
              next |-> IF k < Len(result) THEN Some(result[k + 1]) ELSE None]
    ELSE [prev |-> None, next |-> None]

\* the sort column get_adjacent_media picks, lines 773-791
SortColumn(sort) ==
    IF sort = "upload_time" THEN "upload_time"
    ELSE IF sort = "touch_time" THEN "touch_time"
    ELSE IF sort = "size" THEN "size"
    ELSE IF sort = "data1" THEN "data1"
    ELSE IF sort = "likes" THEN "like_count"
    ELSE "creation_time"

\* medium.like_count of a Medium object, lines 165-167: 0 for no count
LikeCountOfMedium(lk, medium) ==
    IF LikeCount(lk, medium.id) = Null THEN 0 ELSE LikeCount(lk, medium.id)[1]

\* the target value read from the reference medium, lines 773-791
Target(lk, medium, sort) ==
    IF SortColumn(sort) = "like_count" THEN LikeCountOfMedium(lk, medium)
    ELSE medium[SortColumn(sort)]

AscChain(col) == <<Asc(col), Asc("creation_time"), Asc("id")>>
DescChain(col) == <<Desc(col), Desc("creation_time"), Desc("id")>>

\* a get_adjacent_media whose predecessor fallback orders ascending: it
\* takes the least, not the greatest, row of smaller key
get_adjacent_media_PrevLeast(t, lk, medium, filter, sort, order) ==
    LET conditions == prepare_media_search_conditions(filter)
        counts == like_counts(lk, filter)
        col == SortColumn(sort)
        target == Val(Target(counts, medium, sort))
        result_eq ==
            OrderBy(counts, Statement(t, lk, filter, conditions \o <<CondCmp(col, "=", target)>>),
                    AscChain(col))
        eq == capture_adjacent_media_from_result(medium, result_eq)
        result_prev ==
            Limit1(OrderBy(counts, Statement(t, lk, filter,
                                         conditions \o <<CondCmp(col, "<", target)>>),
                           AscChain(col)))
        result_next ==
            Limit1(OrderBy(counts, Statement(t, lk, filter,
                                         conditions \o <<CondCmp(col, ">", target)>>),
                           AscChain(col)))
    IN  [prev |-> IF eq.prev = None THEN result_prev ELSE eq.prev,
         next |-> IF eq.next = None THEN result_next ELSE eq.next]

\* get_adjacent_media for a sort that is not random, lines 710-888: the
\* order argument is not read on this path
get_adjacent_media(t, lk, medium, filter, sort, order) ==
    LET conditions == prepare_media_search_conditions(filter)
        counts == like_counts(lk, filter)
        col == SortColumn(sort)
        target == Val(Target(counts, medium, sort))
        result_eq ==
            OrderBy(counts, Statement(t, lk, filter, conditions \o <<CondCmp(col, "=", target)>>),
                    AscChain(col))
        eq == capture_adjacent_media_from_result(medium, result_eq)
        result_prev ==
            Limit1(OrderBy(counts, Statement(t, lk, filter,
                                         conditions \o <<CondCmp(col, "<", target)>>),
                           DescChain(col)))
        result_next ==
            Limit1(OrderBy(counts, Statement(t, lk, filter,
                                         conditions \o <<CondCmp(col, ">", target)>>),
                           AscChain(col)))
    IN  [prev |-> IF eq.prev = None THEN result_prev ELSE eq.prev,
         next |-> IF eq.next = None THEN result_next ELSE eq.next]

\* the ORDER BY of the random branch of get_adjacent_media on sqlite,
\* lines 728-767: the text expression, creation_time and id, all three in
\* the direction
adjacent_random_order(sort, order) ==
    LET d == IF order # "asc" THEN "desc" ELSE order
    IN  <<[text |-> randints(rng_seed(SeedOfSort(sort)), 8), dir |-> d],
          [col |-> "creation_time", dir |-> d], [col |-> "id", dir |-> d]>>

\* get_adjacent_media for a random sort, lines 728-770: the neighbours of
\* the reference medium in the one ordered result
get_adjacent_media_random(t, lk, medium, filter, sort, order) ==
    capture_adjacent_media_from_result(
        medium,
        OrderBy(like_counts(lk, filter), Statement(t, lk, filter, <<>>),
                adjacent_random_order(sort, order)))

\* a get_adjacent_media that always runs its three queries
adjacent_queries_All(t, lk, medium, filter, sort, order) ==
    <<"eq", "prev", "next">>

\* the queries one get_adjacent_media executes, in order: the one scan of
\* a random sort (line 765), or the equal batch (line 802) and the
\* fallbacks of lines 811-821 and 850-860, each run only when the batch
\* left that neighbour open
adjacent_queries(t, lk, medium, filter, sort, order) ==
    IF sort \in RandomSorts THEN <<"random">>
    ELSE LET conditions == prepare_media_search_conditions(filter)
             counts == like_counts(lk, filter)
             col == SortColumn(sort)
             target == Val(Target(counts, medium, sort))
             eq == capture_adjacent_media_from_result(
                       medium,
                       OrderBy(counts,
                               Statement(t, lk, filter,
                                         conditions \o <<CondCmp(col, "=", target)>>),
                               AscChain(col)))
         IN  <<"eq">> \o (IF eq.prev = None THEN <<"prev">> ELSE <<>>)
                     \o (IF eq.next = None THEN <<"next">> ELSE <<>>)

----------------------------------------------------------------------------
(* Specifications of the queries.  A query leaves the store as it is, so   *)
(* Init draws the tables and one step applies one query to them.           *)

Times == {0, 1}
Vals == {0, 1, 2}

\* loc holds the state of the process-wide random generator; ret also
\* remembers the outcome of the search_media the call repeats, if the last
\* completed call was a search_media with the same arguments
SearchMedia(filter, sort, order) ==
    LET r == search_media(media, likes, filter, sort, order, loc.rng)
        again == /\ ret.op = "search_media"
                 /\ ret.filter = filter /\ ret.sort = sort /\ ret.order = order
    IN  /\ ret' = [op |-> "search_media", filter |-> filter, sort |-> sort,
                   order |-> order,
                   out |-> IF r.ok THEN "ok" ELSE r.err,
                   result |-> IF r.ok THEN r.result ELSE <<>>,
                   keys |-> IF r.ok THEN r.keys ELSE <<>>,
                   like_count |->
                       IF r.ok
                       THEN [k \in DOMAIN r.result |->
                                LikeCountArg(LikeCount(like_counts(likes, filter),
                                                       r.result[k].id))]
                       ELSE <<>>,
                   again |-> again,
                   first |-> IF again THEN <<[out |-> ret.out, result |-> ret.result]>>
                             ELSE <<>>]
        /\ IF r.ok /\ r.reseeded THEN \E n \in RngStates : loc' = [rng |-> n]
           ELSE loc' = loc
        /\ UNCHANGED <<media, tags, likes, inp, pc>>

\* a random sort seeds, draws from and reseeds the generator, lines 740-754
GetAdjacentMedia(medium, filter, sort, order) ==
    /\ LET r == IF sort \in RandomSorts
                THEN get_adjacent_media_random(media, likes, medium, filter, sort, order)
                ELSE get_adjacent_media(media, likes, medium, filter, sort, order)
       IN  ret' = [op |-> "get_adjacent_media", medium |-> medium,
                   filter |-> filter, sort |-> sort, order |-> order,
                   prev |-> r.prev, next |-> r.next,
                   queries |-> adjacent_queries(media, likes, medium, filter,
                                                sort, order)]
    /\ IF sort \in RandomSorts THEN \E n \in RngStates : loc' = [rng |-> n]
       ELSE loc' = loc
    /\ UNCHANGED <<media, tags, likes, inp, pc>>

\* a table of media 1..NavMaxId, each absent or stored with a creation
\* time, one value in all other numeric columns, and a status
NavChoices ==
    {[present |-> FALSE, ct |-> 0, v |-> 0, st |-> 1]}
    \cup [present : {TRUE}, ct : Times, v : Vals,
          st : {MediumStatus.ALLOWED, MediumStatus.FORBIDDEN}]

NavRow(i, c) ==
    [id |-> i, upload_time |-> c.v, creation_time |-> c.ct, touch_time |-> c.v,
     status |-> c.st, protection |-> MediumProtection.NONE,
     searchability |-> MediumSearchability.HIDDEN, group_bits |-> 0,
     size |-> c.v, data1 |-> c.v]

NavTable(f) == SetToBag({NavRow(i, f[i]) : i \in {j \in DOMAIN f : f[j].present}})

NavFilters ==
    {<<>>, [with_statuses |-> ListArg(<<MemV("MediumStatus", "ALLOWED"), StrV("FAKE")>>)]}

NavSorts == {"creation_time", "upload_time", "touch_time", "size", "data1"}

\* navigation with order 'asc' from every medium of a table of up to
\* NavMaxId media
InitNav ==
    /\ \E f \in [1..NavMaxId -> NavChoices] : media = NavTable(f)
    /\ tags = EmptyBag
    /\ likes = EmptyBag
    /\ inp = <<>>
    /\ ret = NoRet
    /\ pc = <<>>
    /\ loc = <<>>

NextNav ==
    ret = NoRet /\ \E m \in Rows(media), f \in NavFilters, st \in NavSorts :
                       GetAdjacentMedia(m, f, st, "asc")

SpecNav == InitNav /\ [][NextNav]_vars

\* the sort tokens (none, or a column) and the order tokens (none, 'asc',
\* 'desc') of a listing
OrderSorts == {""} \cup NavSorts
Orders == {"", "asc", "desc"}

\* a listing and the navigation beside it, with every sort and order token,
\* over a table of up to MaxId media
InitNavOrder ==
    /\ \E f \in [Ids -> NavChoices] : media = NavTable(f)
    /\ tags = EmptyBag
    /\ likes = EmptyBag
    /\ inp = <<>>
    /\ ret = NoRet
    /\ pc = <<>>
    /\ loc = [rng |-> 0]

NextNavOrder ==
    \/ ret = NoRet /\ \E m \in Rows(media), f \in NavFilters, st \in OrderSorts,
                            o \in Orders :
                         GetAdjacentMedia(m, f, st, o)
    \/ ret = NoRet /\ \E f \in NavFilters, st \in OrderSorts, o \in Orders :
                         SearchMedia(f, st, o)

SpecNavOrder == InitNavOrder /\ [][NextNavOrder]_vars

\* the values of an enum filter entry: a member, a name or an integer code
\* of the enumeration, and values that are none of them
FilterValues(e) ==
    {MemV(e, n) : n \in DOMAIN EnumOf(e)}
    \cup {StrV(n) : n \in DOMAIN EnumOf(e)}
    \cup {IntV(EnumOf(e)[n]) : n \in DOMAIN EnumOf(e)}
    \cup {StrV("FAKE"), IntV(100)}

FilterArgs(e) ==
    {OneArg(v) : v \in FilterValues(e)}
    \cup {ListArg(<<v, w>>) : v \in FilterValues(e), w \in {MemV(e, CHOOSE n \in DOMAIN EnumOf(e) : TRUE), StrV("FAKE"), IntV(100)}}

WithFilters ==
    {[with_statuses |-> a] : a \in FilterArgs("MediumStatus")}
    \cup {[with_protections |-> a] : a \in FilterArgs("MediumProtection")}
    \cup {[with_searchabilities |-> a] : a \in FilterArgs("MediumSearchability")}

\* a table of media 1..MaxId, each absent or stored with any status,
\* protection and searchability
FilterChoices ==
    {[present |-> FALSE, st |-> 1, pr |-> 1, se |-> 1]}
    \cup [present : {TRUE},
          st : {MediumStatus[n] : n \in DOMAIN MediumStatus},
          pr : {MediumProtection[n] : n \in DOMAIN MediumProtection},
          se : {MediumSearchability[n] : n \in DOMAIN MediumSearchability}]

FilterRow(i, c) ==
    [id |-> i, upload_time |-> 0, creation_time |-> 0, touch_time |-> 0,
     status |-> c.st, protection |-> c.pr, searchability |-> c.se,
     group_bits |-> 0, size |-> 0, data1 |-> 0]

FilterTable(f) == SetToBag({FilterRow(i, f[i]) : i \in {j \in DOMAIN f : f[j].present}})

InitFilter ==
    /\ \E f \in [Ids -> FilterChoices] : media = FilterTable(f)
    /\ tags = EmptyBag
    /\ likes = EmptyBag
    /\ inp = <<>>
    /\ ret = NoRet
    /\ pc = <<>>
    /\ loc = [rng |-> 0]

WithoutFilters ==
    {[without_statuses |-> a] : a \in FilterArgs("MediumStatus")}
    \cup {[without_protections |-> a] : a \in FilterArgs("MediumProtection")}
    \cup {[without_searchabilities |-> a] : a \in FilterArgs("MediumSearchability")}

NextFilter ==
    \/ ret = NoRet /\ \E f \in WithFilters : SearchMedia(f, "", "")
    \/ ret = NoRet /\ \E f \in WithoutFilters : SearchMedia(f, "", "")

SpecFilter == InitFilter /\ [][NextFilter]_vars

----------------------------------------------------------------------------
(* Claims about the queries *)

\* the value a raw filter value denotes in an enumeration: the member
\* itself, the member of that name, or the member of that integer code
Denotes(e, v) ==
    IF IsMemberOf(v, e) THEN {EnumOf(e)[v.name]}
    ELSE IF v.k = "str" /\ v.s \in DOMAIN EnumOf(e) THEN {EnumOf(e)[v.s]}
    ELSE IF v.k = "int" /\ (\E n \in DOMAIN EnumOf(e) : EnumOf(e)[n] = v.i) THEN {v.i}
    ELSE {}

DenotedCodes(e, arg) == UNION {Denotes(e, v) : v \in AsSet(arg)}

\* C3: search_media with one of with_statuses, with_protections,
\* with_searchabilities returns exactly the media whose field is one of the
\* supplied values that denote a member (given as member, name or integer
\* code); values that denote none are ignored, and the result is empty
\* when no supplied value denotes a member.
C3_WithEnumFilter ==
    ret.op = "search_media" =>
        \A k \in DOMAIN EnumFilters :
            LET f == EnumFilters[k]
            IN  DOMAIN ret.filter = {WithKey(f)} =>
                    Elems(ret.result) =
                        {r \in Rows(media) :
                            r[f.col] \in DenotedCodes(f.enum, ret.filter[WithKey(f)])}

\* the view of a filter, and the total order (sort key, creation_time, id)
View(filter) == Statement(media, likes, filter, <<>>)
Lower(a, b, col) == Before(likes, a, b, AscChain(col))

\* the greatest element of the view strictly before m, the least strictly
\* after m
Greatest(S, col) ==
    IF S = {} THEN None
    ELSE Some(CHOOSE x \in S : \A y \in S \ {x} : Lower(y, x, col))
Least(S, col) ==
    IF S = {} THEN None
    ELSE Some(CHOOSE x \in S : \A y \in S \ {x} : Lower(x, y, col))

\* C1: for a numeric or time sort field with order 'asc', and a reference
\* medium m of the filtered view, get_adjacent_media returns as prev the
\* greatest element of the view strictly before m and as next the least
\* element strictly after m in the order (sort key, creation_time, id);
\* prev is empty exactly when m is first, next exactly when m is last.
C1_AdjacentAscending ==
    (/\ ret.op = "get_adjacent_media"
     /\ ret.order = "asc"
     /\ ret.sort \in NavSorts
     /\ ret.medium \in View(ret.filter)) =>
        LET m == ret.medium
            before == {r \in View(ret.filter) : Lower(r, m, ret.sort)}
            after == {r \in View(ret.filter) : Lower(m, r, ret.sort)}
        IN  /\ ret.prev = Greatest(before, ret.sort)
            /\ ret.next = Least(after, ret.sort)
            /\ (ret.prev = None) <=> (before = {})
            /\ (ret.next = None) <=> (after = {})

\* the reference medium is last in the view; its predecessor shares its
\* sort key and is found by the tie-break, and a medium the filter leaves
\* out of the view lies between the two in the table
C1_Witness ==
    /\ ret.op = "get_adjacent_media"
    /\ ret.order = "asc"
    /\ ret.sort = "size"
    /\ ret.medium \in View(ret.filter)
    /\ ret.prev # None
    /\ ret.next = None
    /\ ret.prev[1].size = ret.medium.size
    /\ \E x \in Rows(media) \ View(ret.filter) :
          Lower(ret.prev[1], x, "size") /\ Lower(x, ret.medium, "size")

\* C2: for every column sort and every order token get_adjacent_media
\* returns the items directly before and directly after the reference
\* medium in the sequence search_media returns for the same filter, sort
\* and order.
C2_AdjacentFollowsSearch ==
    (ret.op = "get_adjacent_media" /\ ret.medium \in View(ret.filter)) =>
        LET seq == search_media(media, likes, ret.filter, ret.sort, ret.order,
                                loc.rng).result
            k == CHOOSE j \in DOMAIN seq : seq[j].id = ret.medium.id
        IN  /\ ret.prev = (IF k > 1 THEN Some(seq[k - 1]) ELSE None)
            /\ ret.next = (IF k < Len(seq) THEN Some(seq[k + 1]) ELSE None)

----------------------------------------------------------------------------
(* Media objects read back from the store, and update_medium *)

\* the Medium built from a result row, lines 604-626: the enum columns go
\* through the enumeration's constructor, group_bits is the stored integer,
\* like_count the joined like count
MediumOfRow(lk, row) ==
    LET s == EnumByValue("MediumStatus", row.status)
        p == EnumByValue("MediumProtection", row.protection)
        q == EnumByValue("MediumSearchability", row.searchability)
    IN  IF ~s.ok THEN Raise(s.err)
        ELSE IF ~p.ok THEN Raise(p.err)
        ELSE IF ~q.ok THEN Raise(q.err)
        ELSE Medium([id |-> row.id,
                     upload_time |-> row.upload_time,
                     creation_time |-> row.creation_time,
                     touch_time |-> row.touch_time,
                     status |-> s.member,
                     protection |-> p.member,
                     searchability |-> q.member,
                     group_bits |-> IntV(row.group_bits),
                     size |-> row.size,
                     data1 |-> row.data1,
                     like_count |-> LikeCount(lk, row.id)])

\* get_medium(id), lines 305-307: search_media with the ids filter builds
\* the Medium of the row of that id; the result is that medium, or nothing
get_medium(t, lk, id) ==
    IF ~HasMedium(t, id) THEN [ok |-> TRUE, found |-> FALSE]
    ELSE LET m == MediumOfRow(lk, CHOOSE q \in Rows(t) : q.id = id)
         IN  IF m.ok THEN [ok |-> TRUE, found |-> TRUE, medium |-> m.medium]
             ELSE m

\* Medium(id=id, **kwargs): absent times are the current time, every other
\* absent argument has its default
WithDefaults(kwargs, now) ==
    kwargs @@ [upload_time |-> now, creation_time |-> now, touch_time |-> now]
           @@ DefaultKw

\* the value stored in a column for a Medium object, lines 926-957
ColumnValue(m, c) ==
    IF c \in {"status", "protection", "searchability"} THEN IntOfMember(m[c])
    ELSE IF c = "group_bits" THEN from_bytes(m[c])
    ELSE m[c]

\* the row after UPDATE ... SET updates
Updated(q, updates) ==
    [c \in DOMAIN q |-> IF c \in DOMAIN updates THEN updates[c] ELSE q[c]]

\* an update_medium that writes every column of the Medium object it built
update_medium_AllColumns(t, id, kwargs, now) ==
    LET m == Medium([id |-> id] @@ WithDefaults(kwargs, now))
    IN  IF ~m.ok THEN [out |-> m.err, table |-> t]
        ELSE LET hit == {q \in Rows(t) : q.id = id}
             IN  [out |-> "ok",
                  table |-> Without(t, hit)
                                (+) SetToBag({RowOfMedium(m.medium) : q \in hit})]

\* update_medium, lines 923-964: the columns named in kwargs, and always
\* touch_time, are set on the row of that id
update_medium(t, id, kwargs, now) ==
    LET m == Medium([id |-> id] @@ WithDefaults(kwargs, now))
    IN  IF ~m.ok THEN [out |-> m.err, table |-> t]
        ELSE LET named == (DOMAIN kwargs \cap MediaColumns) \ {"id"}
                 updates == [c \in named \cup {"touch_time"} |->
                                IF c \in named THEN ColumnValue(m.medium, c)
                                ELSE now]
                 hit == {q \in Rows(t) : q.id = id}
             IN  [out |-> "ok",
                  table |-> Without(t, hit)
                                (+) SetToBag({Updated(q, updates) : q \in hit})]

\* arguments of create_medium: group_bits as an int or as bytes of one, two
\* and three bytes, the enum fields as member, name or integer code
MediumKws ==
    {[DefaultKw EXCEPT !.id = i, !.group_bits = g] :
        i \in Ids,
        g \in {IntV(0), IntV(258), IntV(65536), BytesV(<<1, 2>>), BytesV(<<1>>),
               BytesV(<<1, 0, 0>>)}}
    \cup {[DefaultKw EXCEPT !.id = i, !.upload_time = 1, !.creation_time = 1,
                            !.touch_time = 1, !.status = st, !.protection = pr,
                            !.searchability = se, !.size = 1, !.data1 = 1] :
            i \in Ids,
            st \in {StrV("COPYRIGHT"), IntV(0 - 2)},
            pr \in {MemV("MediumProtection", "GROUPS"), IntV(3)},
            se \in {StrV("PUBLIC"), IntV(3)}}

\* arguments of update_medium: partial field sets
UpdateKws ==
    {[size |-> 2], [touch_time |-> 0], [size |-> 2, touch_time |-> 2],
     [status |-> StrV("FORBIDDEN")], [status |-> IntV(1), data1 |-> 2],
     [status |-> StrV("FAKE")], [searchability |-> IntV(2)],
     [protection |-> MemV("MediumProtection", "PRIVATE")],
     [group_bits |-> IntV(3)], [group_bits |-> BytesV(<<1>>)],
     [upload_time |-> 2, creation_time |-> 2]}

\* the media tables create_medium builds from MediumKws
MediumTables ==
    {SetToBag({RowOfMedium(Medium(f[i]).medium) : i \in {j \in Ids : f[j] # <<>>}}) :
        f \in {g \in [Ids -> {<<>>} \cup {kw \in MediumKws : Medium(kw).ok}] :
                  \A i \in Ids : g[i] # <<>> => g[i].id = i}}

InitMedium ==
    /\ media \in MediumTables
    /\ tags = EmptyBag
    /\ likes = EmptyBag
    /\ inp = <<>>
    /\ ret = NoRet
    /\ pc = <<>>
    /\ loc = <<>>

UpdateMedium(id, kwargs, now) ==
    LET r == update_medium(media, id, kwargs, now)
    IN  /\ media' = r.table
        /\ ret' = [op |-> "update_medium", id |-> id, kw |-> kwargs,
                   now |-> now, out |-> r.out]
        /\ UNCHANGED <<tags, likes, inp, pc, loc>>

\* ret of get_medium also remembers the arguments of the create_medium the
\* call directly follows, when that call created the medium asked for
GetMedium(id) ==
    /\ ret' = [op |-> "get_medium", id |-> id,
               out |-> get_medium(media, likes, id),
               created |-> IF /\ ret.op = "create_medium"
                              /\ ret.out = "ok"
                              /\ ret.kw.id = id
                           THEN <<ret.kw>> ELSE <<>>]
    /\ UNCHANGED <<media, tags, likes, inp, pc, loc>>

\* one create_medium or update_medium on a stored table, then reads
NextMedium ==
    \/ ret = NoRet /\ \E kw \in MediumKws : CreateMedium(kw)
    \/ ret = NoRet /\ \E id \in Ids, kw \in UpdateKws, now \in Times :
                         UpdateMedium(id, kw, now)
    \/ ret.op \in {"create_medium", "update_medium"} /\ \E id \in Ids : GetMedium(id)

SpecMedium == InitMedium /\ [][NextMedium]_vars

\* the value a supplied argument stands for in its column: the integer code
\* of the member an enum value denotes, the big-endian integer of bytes
ValueFor(c, v) ==
    IF c = "status" THEN CHOOSE x \in Denotes("MediumStatus", v) : TRUE
    ELSE IF c = "protection" THEN CHOOSE x \in Denotes("MediumProtection", v) : TRUE
    ELSE IF c = "searchability" THEN CHOOSE x \in Denotes("MediumSearchability", v) : TRUE
    ELSE IF c = "group_bits" THEN (IF v.k = "int" THEN v.i ELSE from_bytes(v.b))
    ELSE v

\* C11: an update_medium(id, fields) that returns changes, on the row with
\* that id, exactly the supplied fields and touch_time (the supplied
\* touch_time, otherwise the current time); every other field of the row,
\* every other row, the tags and the likes are unchanged, and the store is
\* unchanged when no row has that id.
C11_UpdateFrame ==
    [][(ret'.op = "update_medium" /\ ret'.out = "ok") =>
        LET id == ret'.id
            kw == ret'.kw
        IN  /\ \A q \in Rows(media) : q.id # id => CopiesIn(q, media') = CopiesIn(q, media)
            /\ \A r \in Rows(media') : r.id # id => r \in Rows(media)
            /\ ~HasMedium(media, id) => media' = media
            /\ \A q \in Rows(media) : q.id = id =>
                 /\ BagCardinality(media') = BagCardinality(media)
                 /\ \E r \in Rows(media') :
                      /\ r.id = id
                      /\ \A c \in DOMAIN q :
                           r[c] = IF c \in DOMAIN kw THEN ValueFor(c, kw[c])
                                  ELSE IF c = "touch_time" THEN ret'.now
                                  ELSE q[c]
            /\ tags' = tags
            /\ likes' = likes]_vars

\* an update without touch_time has changed the size of a stored medium
\* whose other fields are not the defaults, beside another stored medium
C11_Witness ==
    /\ ret.op = "update_medium"
    /\ ret.out = "ok"
    /\ DOMAIN ret.kw = {"size"}
    /\ \E r \in Rows(media) :
          r.id = ret.id /\ r.size = 2 /\ r.data1 = 1 /\ r.touch_time = ret.now
          /\ ret.now # 1
    /\ \E r \in Rows(media) : r.id # ret.id

\* C12: get_medium(id) directly after a successful create_medium with
\* explicit field values returns a medium whose fields equal those of the
\* medium create_medium returned.
C12_CreateGetRoundTrip ==
    (ret.op = "get_medium" /\ ret.created # <<>>) =>
        /\ ret.out.ok
        /\ ret.out.found
        /\ ret.out.medium = Medium(ret.created[1]).medium

\* C13: every Medium object create_medium or get_medium returns has a
\* group_bits of exactly 2 bytes.
C13_GroupBitsTwoBytes ==
    /\ (ret.op = "create_medium" /\ ret.out = "ok") =>
           Len(Medium(ret.kw).medium.group_bits) = 2
    /\ (ret.op = "get_medium" /\ ret.out.ok /\ ret.out.found) =>
           Len(ret.out.medium.group_bits) = 2

\* C14: search_media with one of without_statuses, without_protections,
\* without_searchabilities returns exactly the media whose field differs
\* from every supplied value that denotes a member; values that denote none
\* add no restriction, so the result is every medium when no supplied value
\* denotes a member.
C14_WithoutEnumFilter ==
    ret.op = "search_media" =>
        \A k \in DOMAIN EnumFilters :
            LET f == EnumFilters[k]
            IN  DOMAIN ret.filter = {WithoutKey(f)} =>
                    Elems(ret.result) =
                        {r \in Rows(media) :
                            r[f.col] \notin DenotedCodes(f.enum, ret.filter[WithoutKey(f)])}

----------------------------------------------------------------------------
(* Listings under every sort token *)

\* a table of media 1..MaxId, each absent or stored with a creation time
\* and one value in the other numeric columns
SortChoices ==
    {[present |-> FALSE, ct |-> 0, v |-> 0, st |-> 1]}
    \cup [present : {TRUE}, ct : Times, v : Times, st : {MediumStatus.ALLOWED}]

\* the likes: each like id absent, or a like of one medium by one user
LikeChoices == {<<>>} \cup {<<m>> : m \in Ids}

LikeTable(g) ==
    SetToBag({[id |-> l, medium_id |-> g[l][1], user_id |-> "u1"] :
                 l \in {k \in DOMAIN g : g[k] # <<>>}})

\* the sort tokens: none, a column, a token that names no column, 'likes',
\* and a random sort whose text key ties on every row
SortTokens == {"", "size", "nosuch", "likes", "random:a"}

InitSort ==
    /\ \E f \in [Ids -> SortChoices] : media = NavTable(f)
    /\ tags = EmptyBag
    /\ \E g \in [LikeIds -> LikeChoices] : likes = LikeTable(g)
    /\ inp = <<>>
    /\ ret = NoRet
    /\ pc = <<>>
    /\ loc = [rng |-> 0]

NextSort ==
    \/ ret = NoRet /\ \E st \in SortTokens, o \in Orders : SearchMedia(<<>>, st, o)
    \/ ret = NoRet /\ \E m \in Rows(media) : GetAdjacentMedia(m, <<>>, "likes", "asc")

SpecSort == InitSort /\ [][NextSort]_vars

\* C15: every ordering search_media produces is total and deterministic:
\* the ORDER BY chain ends in the id column, of two distinct rows of the
\* view exactly one is ordered before the other, and the result lists the
\* view in that order.
C15_TotalOrder ==
    (ret.op = "search_media" /\ ret.out = "ok") =>
        LET view == View(ret.filter)
            n == Len(ret.keys)
        IN  /\ n > 0
            /\ ~IsTextKey(ret.keys[n])
            /\ ret.keys[n].col = "id"
            /\ \A a, b \in view :
                  a # b => (Before(likes, a, b, ret.keys) # Before(likes, b, a, ret.keys))
            /\ Elems(ret.result) = view
            /\ Len(ret.result) = Cardinality(view)
            /\ \A i, j \in DOMAIN ret.result :
                  i < j => Before(likes, ret.result[i], ret.result[j], ret.keys)

\* a likes sort has listed two media with the same like count, which the
\* id alone tells apart
C15_Witness ==
    /\ ret.op = "search_media"
    /\ ret.out = "ok"
    /\ ret.sort = "likes"
    /\ Len(ret.result) = 2
    /\ LikeCount(likes, ret.result[1].id) = LikeCount(likes, ret.result[2].id)
    /\ LikeCount(likes, ret.result[1].id) # Null

\* C17: search_media with no order token succeeds for every sort token and
\* returns what it returns for the order token 'desc'.
C17_DefaultDescending ==
    (ret.op = "search_media" /\ ret.order = "") =>
        LET desc == search_media(media, likes, ret.filter, ret.sort, "desc", 0)
        IN  /\ ret.out = "ok"
            /\ desc.ok
            /\ ret.result = desc.result

----------------------------------------------------------------------------
(* Random listings and the process-wide generator *)

\* generate_random_seed, lines 298-302: four random.getrandbits(8) advance
\* the process-wide generator (the token returned is not kept here)
generate_random_seed(rng) == rng_next(rng_next(rng_next(rng_next(rng))))

\* ret keeps the last search_media
GenerateRandomSeed ==
    /\ loc' = [rng |-> generate_random_seed(loc.rng)]
    /\ UNCHANGED <<media, tags, likes, inp, ret, pc>>

\* a table of media 1..MaxId, each absent or stored with a creation time
RandomChoices ==
    {[present |-> FALSE, ct |-> 0, v |-> 0, st |-> 1]}
    \cup [present : {TRUE}, ct : Times, v : {0}, st : {MediumStatus.ALLOWED}]

InitRandom ==
    /\ \E f \in [Ids -> RandomChoices] : media = NavTable(f)
    /\ tags = EmptyBag
    /\ likes = EmptyBag
    /\ inp = <<>>
    /\ ret = NoRet
    /\ pc = <<>>
    /\ loc \in [rng : RngStates]

\* a random listing, other draws from the generator, and the same listing
\* once more
NextRandom ==
    \/ ret = NoRet /\ \E st \in RandomSorts, o \in Orders : SearchMedia(<<>>, st, o)
    \/ GenerateRandomSeed
    \/ /\ ret.op = "search_media"
       /\ ~ret.again
       /\ SearchMedia(ret.filter, ret.sort, ret.order)

SpecRandom == InitRandom /\ [][NextRandom]_vars

\* C16: search_media with sort 'random:SEED' called again with the same
\* SEED, filter and order over the same data returns the same id order,
\* whatever was drawn from the process-wide generator in between.
C16_RandomRepeatable ==
    (ret.op = "search_media" /\ ret.sort \in RandomSorts /\ ret.again) =>
        /\ ret.out = "ok"
        /\ ret.first[1].out = "ok"
        /\ [i \in DOMAIN ret.result |-> ret.result[i].id]
               = [i \in DOMAIN ret.first[1].result |-> ret.first[1].result[i].id]

\* a random listing of two media of equal creation time, in descending
\* direction, has been repeated and lists the smaller id first: the text
\* key, not the tie-break, has ordered them
C16_Witness ==
    /\ ret.op = "search_media"
    /\ ret.sort \in RandomSorts
    /\ ret.order = "desc"
    /\ ret.again
    /\ Len(ret.result) = 2
    /\ ret.result[1].creation_time = ret.result[2].creation_time
    /\ ret.result[1].id < ret.result[2].id

\* the media of a set that have no like rows
ZeroLike(S) == {r \in S : LikeCount(likes, r.id) = Null}

\* C18: under sort 'likes' a medium without like rows counts as having 0
\* likes: a reference without likes, in a view that holds another medium
\* without likes, gets a neighbour without likes; and the only medium of
\* the smallest positive like count gets a medium without likes as its
\* predecessor when the view holds one.
C18_ZeroLikeAdjacent ==
    (/\ ret.op = "get_adjacent_media"
     /\ ret.sort = "likes"
     /\ ret.medium \in View(ret.filter)) =>
        LET m == ret.medium
            view == View(ret.filter)
            zero == ZeroLike(view)
            c == LikeCount(likes, m.id)
        IN  /\ (m \in zero /\ zero # {m}) =>
                   \/ ret.prev # None /\ ret.prev[1] \in zero
                   \/ ret.next # None /\ ret.next[1] \in zero
            /\ (/\ m \notin zero
                /\ zero # {}
                /\ \A r \in view \ (zero \cup {m}) : LikeCount(likes, r.id)[1] > c[1]) =>
                   ret.prev # None /\ ret.prev[1] \in zero

----------------------------------------------------------------------------
\* Searching, counting and navigating the media a user has liked.

CountMedia(filter) ==
    /\ ret' = [op |-> "count_media", filter |-> filter,
               count |-> count_media(media, likes, filter)]
    /\ UNCHANGED <<media, tags, likes, inp, pc, loc>>

\* the likes: each like id absent, or a like of one medium by one user
UserLikeChoices == {<<>>} \cup (Ids \X Users)

UserLikeTable(g) ==
    SetToBag({[id |-> l, medium_id |-> g[l][1], user_id |-> g[l][2]] :
                 l \in {k \in DOMAIN g : g[k] # <<>>}})

\* the liked_by_user values: the two users, and a value that is no id
LikedFilters == {[liked_by_user |-> u] : u \in Users \cup {"not an id"}}

InitLiked ==
    /\ \E f \in [Ids -> SortChoices] : media = NavTable(f)
    /\ tags = EmptyBag
    /\ \E g \in [LikeIds -> UserLikeChoices] : likes = UserLikeTable(g)
    /\ inp = <<>>
    /\ ret = NoRet
    /\ pc = <<>>
    /\ loc = [rng |-> 0]

NextLiked ==
    \/ ret = NoRet /\ \E f \in LikedFilters : SearchMedia(f, "", "")
    \/ ret = NoRet /\ \E f \in LikedFilters : CountMedia(f)
    \/ ret = NoRet /\ \E f \in LikedFilters, m \in Rows(media) :
                          GetAdjacentMedia(m, f, "creation_time", "asc")

SpecLiked == InitLiked /\ [][NextLiked]_vars

\* the media some like row of the user u refers to
LikedMedia(u) ==
    {r \in Rows(media) :
        \E q \in Rows(likes) : q.medium_id = r.id /\ q.user_id = u}

\* the media a liked_by_user filter should select: those the user has
\* liked, or every medium when the value is no user id
LikedView(filter) ==
    IF filter.liked_by_user \in Users THEN LikedMedia(filter.liked_by_user)
    ELSE Rows(media)

\* C19: with liked_by_user a user id, search_media returns exactly the media
\* that user has liked, count_media their number, and get_adjacent_media
\* the neighbours among them; with a value that is no id the three calls
\* succeed and answer as for every medium.
C19_LikedByUser ==
    /\ (ret.op = "search_media" /\ "liked_by_user" \in DOMAIN ret.filter) =>
          /\ ret.out = "ok"
          /\ Elems(ret.result) = LikedView(ret.filter)
          /\ Len(ret.result) = Cardinality(LikedView(ret.filter))
    /\ (ret.op = "count_media" /\ "liked_by_user" \in DOMAIN ret.filter) =>
          ret.count = Cardinality(LikedView(ret.filter))
    /\ (/\ ret.op = "get_adjacent_media"
        /\ "liked_by_user" \in DOMAIN ret.filter
        /\ ret.medium \in LikedView(ret.filter)) =>
          LET m == ret.medium
              before == {r \in LikedView(ret.filter) : Lower(r, m, ret.sort)}
              after == {r \in LikedView(ret.filter) : Lower(m, r, ret.sort)}
          IN  /\ ret.prev = Greatest(before, ret.sort)
              /\ ret.next = Least(after, ret.sort)

\* a search by a user who has liked one of the two stored media, the other
\* being liked by the other user only
C19_Witness ==
    /\ ret.op = "search_media"
    /\ "liked_by_user" \in DOMAIN ret.filter
    /\ ret.filter.liked_by_user \in Users
    /\ Len(ret.result) = 1
    /\ \E r \in Rows(media) \ Elems(ret.result) :
          \E q \in Rows(likes) : q.medium_id = r.id

----------------------------------------------------------------------------
\* Batch tag calls that select nothing: no medium id, no tag, or only
\* empty-string tags.

\* delete_tags, lines 1105-1116: the rows of the non-empty tags are
\* deleted, through an or_ of one condition per tag
delete_tags(t, taglist) ==
    LET tagset == AsSet(taglist) \ {""}
    IN  Without(t, {q \in Rows(t) : OrOfNone(tagset) \/ q.tag \in tagset})

DeleteTags(taglist) ==
    /\ tags' = delete_tags(tags, taglist)
    /\ ret' = [op |-> "delete_tags", tagarg |-> taglist]
    /\ UNCHANGED <<media, likes, inp, pc, loc>>

BatchIdArgs == IdArgs \cup {ListArg(<<>>)}
BatchTagArgs == TagArgs \cup {ListArg(<<"">>), OneArg("")}

NextBatch ==
    \/ \E i \in BatchIdArgs, g \in BatchTagArgs : AddTags(i, g)
    \/ \E i \in BatchIdArgs, g \in BatchTagArgs : RemoveTags(i, g)
    \/ \E g \in BatchTagArgs : DeleteTags(g)

SpecBatch == Init /\ [][NextBatch]_vars

\* the call selects no row: it names no non-empty tag to delete or add, no
\* medium, or a list of empty-string tags only
EmptySelection(call) ==
    \/ call.op = "delete_tags" /\ Given(call.tagarg) = {}
    \/ call.op = "remove_tags" /\ AsSet(call.ids) = {}
    \/ /\ call.op = "remove_tags"
       /\ call.tagarg.islist /\ call.tagarg.items # <<>>
       /\ Given(call.tagarg) = {}
    \/ call.op = "add_tags" /\ Given(call.tagarg) = {}

\* C20: a batch tag call whose selection is empty (delete_tags with no
\* non-empty tag, remove_tags with no medium id or with empty-string tags
\* only, add_tags with no non-empty tag) leaves the tag table as it was and
\* raises nothing.
C20_EmptySelectionNoOp ==
    [][EmptySelection(ret') =>
          /\ tags' = tags
          /\ (ret'.op = "add_tags" => ret'.out = "ok")]_vars

----------------------------------------------------------------------------
\* Searching by tags: media 1..MaxId, each carrying any of three tags, and
\* filters of tags and patterns, single or in lists.

TagNames == {"a", "ab", "A"}

TagFilterTable(S) == SetToBag({[medium_id |-> x[1], tag |-> x[2]] : x \in S})

PresentRow(i) ==
    [id |-> i, upload_time |-> 0, creation_time |-> 0, touch_time |-> 0,
     status |-> MediumStatus.ALLOWED, protection |-> MediumProtection.NONE,
     searchability |-> MediumSearchability.HIDDEN, group_bits |-> 0,
     size |-> 0, data1 |-> 0]

TagFilters ==
    {[with_tags |-> a] :
        a \in {OneArg("a"), ListArg(<<"a", "ab">>), ListArg(<<>>), OneArg("")}}
    \cup {[with_tags_like |-> a] :
        a \in {OneArg("a%"), ListArg(<<"_", "a%">>), OneArg("\\%"), OneArg("%")}}
    \cup {[without_tags |-> a] :
        a \in {OneArg("a"), ListArg(<<"a", "ab">>), ListArg(<<>>)}}
    \cup {[without_tags_like |-> a] :
        a \in {OneArg("a%"), ListArg(<<"_", "ab">>), OneArg("%")}}
    \cup {[with_tags |-> OneArg("ab"), without_tags_like |-> OneArg("_")],
          [with_tags_like |-> OneArg("a%"), without_tags |-> ListArg(<<"A", "ab">>)],
          [with_tags |-> OneArg("A"), with_tags_like |-> OneArg("ab")]}

InitTagFilter ==
    /\ \E P \in SUBSET Ids : media = SetToBag({PresentRow(i) : i \in P})
    /\ \E S \in SUBSET (Ids \X TagNames) : tags = TagFilterTable(S)
    /\ likes = EmptyBag
    /\ inp = <<>>
    /\ ret = NoRet
    /\ pc = <<>>
    /\ loc = [rng |-> 0]

NextTagFilter ==
    ret = NoRet /\ \E f \in TagFilters : SearchMedia(f, "", "")

SpecTagFilter == InitTagFilter /\ [][NextTagFilter]_vars

\* the tags or patterns a filter supplies under a key
Supplied(filter, key) ==
    IF key \in DOMAIN filter THEN AsSet(filter[key]) ELSE {}

\* medium r carries a tag row equal to the tag, or matching the pattern
Carries(r, islike, pat) ==
    \E q \in Rows(tags) :
        q.medium_id = r.id /\ TagMatches(q.tag, [like |-> islike, pat |-> pat])

\* C27: a search with tag filters returns exactly the media that carry a
\* matching tag row for every with_ tag and pattern and for no without_ tag
\* or pattern; a medium without tag rows is returned exactly when no with_
\* tag or pattern is supplied.
C27_TagMembership ==
    (ret.op = "search_media") =>
        LET f == ret.filter
            wanted == {r \in Rows(media) :
                         /\ \A p \in Supplied(f, "with_tags") : Carries(r, FALSE, p)
                         /\ \A p \in Supplied(f, "with_tags_like") : Carries(r, TRUE, p)
                         /\ \A p \in Supplied(f, "without_tags") : ~Carries(r, FALSE, p)
                         /\ \A p \in Supplied(f, "without_tags_like") :
                                ~Carries(r, TRUE, p)}
        IN  /\ ret.out = "ok"
            /\ Elems(ret.result) = wanted
            /\ Len(ret.result) = Cardinality(wanted)
            /\ \A r \in Rows(media) :
                  (~\E q \in Rows(tags) : q.medium_id = r.id) =>
                      (r \in wanted <=>
                          Supplied(f, "with_tags") \cup Supplied(f, "with_tags_like") = {})

\* two tags were asked for; the medium that carries both is returned and
\* the medium that carries one of them is not
C27_Witness ==
    /\ ret.op = "search_media"
    /\ ret.filter = [with_tags |-> ListArg(<<"a", "ab">>)]
    /\ Len(ret.result) = 1
    /\ \E r \in Rows(media) \ Elems(ret.result) : Carries(r, FALSE, "a")

----------------------------------------------------------------------------
\* Navigation beside a listing: column, likes and random sorts, every order
\* token, from every medium of the table.

PhaseSorts == {"creation_time", "size", "likes"}

\* a table of media 1..NavMaxId, each absent or stored with a size
PhaseChoices ==
    {[present |-> FALSE, ct |-> 0, v |-> 0, st |-> 1]}
    \cup [present : {TRUE}, ct : {0}, v : Times, st : {MediumStatus.ALLOWED}]

InitPhases ==
    /\ \E f \in [1..NavMaxId -> PhaseChoices] : media = NavTable(f)
    /\ tags = EmptyBag
    /\ \E g \in [LikeIds -> LikeChoices] : likes = LikeTable(g)
    /\ inp = <<>>
    /\ ret = NoRet
    /\ pc = <<>>
    /\ loc = [rng |-> 0]

\* the sort and order of a call: every order with a column or likes sort,
\* and one random sort
PhaseCalls ==
    [sort : PhaseSorts, order : Orders] \cup {[sort |-> "random:b", order |-> ""]}

NextPhases ==
    ret = NoRet /\ \E m \in Rows(media), c \in PhaseCalls :
                       GetAdjacentMedia(m, <<>>, c.sort, c.order)

SpecPhases == InitPhases /\ [][NextPhases]_vars

\* C23: get_adjacent_media runs at most three queries; after the equal
\* batch it queries for the predecessor only when the batch gave none and
\* for the successor only when the batch gave none, so it runs one query
\* when both neighbours are in the batch; a random sort runs one query.
C23_ShortCircuit ==
    (ret.op = "get_adjacent_media") =>
        LET col == SortColumn(ret.sort)
            same == {r \in Rows(media) :
                        SqlCmp(ColVal(likes, r, col), "=",
                               Val(Target(likes, ret.medium, ret.sort)))}
            inBatchBefore ==
                ret.medium \in same /\ \E r \in same : Lower(r, ret.medium, col)
            inBatchAfter ==
                ret.medium \in same /\ \E r \in same : Lower(ret.medium, r, col)
            q == ret.queries
        IN  /\ Len(q) <= 3
            /\ ret.sort \in RandomSorts => q = <<"random">>
            /\ ret.sort \notin RandomSorts =>
                  /\ q[1] = "eq"
                  /\ (\E k \in DOMAIN q : q[k] = "prev") <=> ~inBatchBefore
                  /\ (\E k \in DOMAIN q : q[k] = "next") <=> ~inBatchAfter
                  /\ (inBatchBefore /\ inBatchAfter) => q = <<"eq">>

\* both neighbours of the reference medium share its size: one query
C23_Witness ==
    /\ ret.op = "get_adjacent_media"
    /\ ret.sort = "size"
    /\ ret.queries = <<"eq">>
    /\ ret.prev # None /\ ret.next # None

----------------------------------------------------------------------------
\* Navigation under a random sort, with every seed and order token.

InitRandomNav ==
    /\ \E f \in [Ids -> RandomChoices] : media = NavTable(f)
    /\ tags = EmptyBag
    /\ likes = EmptyBag
    /\ inp = <<>>
    /\ ret = NoRet
    /\ pc = <<>>
    /\ loc = [rng |-> 0]

NextRandomNav ==
    ret = NoRet /\ \E m \in Rows(media), st \in RandomSorts, o \in Orders :
                       GetAdjacentMedia(m, <<>>, st, o)

SpecRandomNav == InitRandomNav /\ [][NextRandomNav]_vars

\* C24: for a random sort and every order token, the prev and next of
\* get_adjacent_media are the items directly before and directly after the
\* reference medium in what search_media returns for the same arguments.
C24_RandomAdjacentFollowsSearch ==
    (/\ ret.op = "get_adjacent_media"
     /\ ret.sort \in RandomSorts
     /\ ret.medium \in View(ret.filter)) =>
        LET listing == search_media(media, likes, ret.filter, ret.sort, ret.order,
                                    loc.rng).result
            at == CHOOSE j \in DOMAIN listing : listing[j].id = ret.medium.id
        IN  /\ (at = 1) <=> (ret.prev = None)
            /\ (at = Len(listing)) <=> (ret.next = None)
            /\ at > 1 => ret.prev = Some(listing[at - 1])
            /\ at < Len(listing) => ret.next = Some(listing[at + 1])

\* C25: for sort 'likes' with order 'asc', when another medium has the like
\* count of the reference medium, the prev and next of get_adjacent_media
\* are the items directly before and directly after the reference medium
\* in search_media(filter, 'likes', 'asc').
C25_LikesAdjacentFollowsSearch ==
    (/\ ret.op = "get_adjacent_media"
     /\ ret.sort = "likes" /\ ret.order = "asc"
     /\ LikeCount(likes, ret.medium.id) # Null
     /\ \E r \in Rows(media) \ {ret.medium} :
           LikeCount(likes, r.id) = LikeCount(likes, ret.medium.id)) =>
        LET listed == search_media(media, likes, ret.filter, "likes", "asc",
                                   loc.rng).result
            here == CHOOSE j \in DOMAIN listed : listed[j].id = ret.medium.id
        IN  /\ ret.prev = (IF here = 1 THEN None ELSE Some(listed[here - 1]))
            /\ ret.next = (IF here = Len(listed) THEN None ELSE Some(listed[here + 1]))

----------------------------------------------------------------------------
\* Tag counts, lines 1119-1247: the tag rows are grouped by tag; filters on
\* the media's status, protection and searchability select the tag rows by
\* the id of their medium.

CondMediaIn(col, parsed) == [kind |-> "mediain", col |-> col, parsed |-> parsed]
CondMediaNotIn(col, code) == [kind |-> "medianotin", col |-> col, code |-> code]

\* the ids of the media subquery of a condition, lines 1166-1172: a value
\* that did not parse gives the condition False, which selects no medium
MediaSubquery(t, col, parsed) ==
    IF parsed = <<>> THEN {}
    ELSE {r.id : r \in {x \in Rows(t) : x[col] = parsed[1]}}

TagCondHolds(t, q, c) ==
    IF c.kind = "mediain" THEN q.medium_id \in MediaSubquery(t, c.col, c.parsed)
    ELSE q.medium_id \notin MediaSubquery(t, c.col, <<c.code>>)

\* the code of a filter value, or none when it does not parse
ParsedCode(e, v) ==
    IF ParseOf(e, v).ok THEN <<IntOfMember(ParseOf(e, v).member)>> ELSE <<>>

\* the with_ conditions of one field, lines 1146-1155: one per value
WithMediaConditions(filter, f) ==
    IF WithKey(f) \in DOMAIN filter
    THEN [k \in DOMAIN filter[WithKey(f)].items |->
             CondMediaIn(f.col, ParsedCode(f.enum, filter[WithKey(f)].items[k]))]
    ELSE <<>>

\* every with_ condition holds of the tag row, lines 1166-1173: each is a
\* containment test of its own and all are AND-ed
tag_counts_with(t, q, filter) ==
    \A k \in DOMAIN EnumFilters :
        LET conds == WithMediaConditions(filter, EnumFilters[k])
        IN  \A j \in DOMAIN conds : TagCondHolds(t, q, conds[j])

\* every without_ condition holds of the tag row, lines 1156-1165 and
\* 1174-1181: one per value that parses
tag_counts_without(t, q, filter) ==
    \A k \in DOMAIN EnumFilters :
        LET f == EnumFilters[k]
        IN  WithoutKey(f) \in DOMAIN filter =>
                \A code \in ParsedCodes(f.enum, filter[WithoutKey(f)]) :
                    TagCondHolds(t, q, CondMediaNotIn(f.col, code))

\* the tag rows a tag counts statement selects, lines 1119-1199
TagCountRows(t, tg, filter) ==
    {q \in Rows(tg) : tag_counts_with(t, q, filter) /\ tag_counts_without(t, q, filter)}

\* search_tag_counts without pagination, lines 1210-1247: the count of
\* each tag that has selected rows
search_tag_counts(t, tg, filter) ==
    LET rows == TagCountRows(t, tg, filter)
    IN  [g \in {q.tag : q \in rows} |-> Cardinality({q \in rows : q.tag = g})]

\* count_unique_tags, lines 1201-1208
count_unique_tags(t, tg, filter) ==
    Cardinality({q.tag : q \in TagCountRows(t, tg, filter)})

SearchTagCounts(filter) ==
    /\ ret' = [op |-> "search_tag_counts", filter |-> filter,
               counts |-> search_tag_counts(media, tags, filter)]
    /\ UNCHANGED <<media, tags, likes, inp, pc, loc>>

CountUniqueTags(filter) ==
    /\ ret' = [op |-> "count_unique_tags", filter |-> filter,
               count |-> count_unique_tags(media, tags, filter)]
    /\ UNCHANGED <<media, tags, likes, inp, pc, loc>>

\* media 1..MaxId, each absent, allowed or forbidden, each carrying any of
\* two tags
CountChoices ==
    {[present |-> FALSE, st |-> 1, pr |-> 1, se |-> 1]}
    \cup [present : {TRUE},
          st : {MediumStatus.ALLOWED, MediumStatus.FORBIDDEN},
          pr : {MediumProtection.NONE},
          se : {MediumSearchability.HIDDEN}]

Allowed == MemV("MediumStatus", "ALLOWED")
Forbidden == StrV("FORBIDDEN")

TagCountFilters ==
    {[with_statuses |-> a] :
        a \in {OneArg(Allowed), ListArg(<<Allowed, Forbidden>>),
               ListArg(<<Allowed, StrV("FAKE")>>), OneArg(StrV("FAKE")),
               ListArg(<<Allowed, Allowed>>)}}
    \cup {[without_statuses |-> a] :
        a \in {OneArg(Forbidden), ListArg(<<Allowed, Forbidden>>),
               ListArg(<<Allowed, StrV("FAKE")>>)}}
    \cup {[with_searchabilities |-> OneArg(StrV("HIDDEN"))],
          [with_protections |-> OneArg(StrV("PRIVATE"))]}

InitTagCounts ==
    /\ \E f \in [Ids -> CountChoices] : media = FilterTable(f)
    /\ \E S \in SUBSET (Ids \X {"a", "b"}) : tags = TagFilterTable(S)
    /\ likes = EmptyBag
    /\ inp = <<>>
    /\ ret = NoRet
    /\ pc = <<>>
    /\ loc = <<>>

NextTagCounts ==
    \/ ret = NoRet /\ \E f \in TagCountFilters : SearchTagCounts(f)
    \/ ret = NoRet /\ \E f \in TagCountFilters : CountUniqueTags(f)

SpecTagCounts == InitTagCounts /\ [][NextTagCounts]_vars

\* the tag rows of the media whose field is one of the values a with_
\* entry denotes
WithTagRows(filter) ==
    {q \in Rows(tags) :
        \E r \in Rows(media) :
            /\ r.id = q.medium_id
            /\ \A k \in DOMAIN EnumFilters :
                  LET f == EnumFilters[k]
                  IN  WithKey(f) \in DOMAIN filter =>
                          r[f.col] \in DenotedCodes(f.enum, filter[WithKey(f)])}

\* C26: with a with_ filter, search_tag_counts counts and count_unique_tags
\* numbers the tags of the media whose field equals one of the supplied
\* values that parse; the result is empty only when no value parses.
C26_TagCountsWithFilter ==
    /\ (/\ ret.op = "search_tag_counts"
        /\ \E k \in DOMAIN EnumFilters : WithKey(EnumFilters[k]) \in DOMAIN ret.filter) =>
          /\ DOMAIN ret.counts = {q.tag : q \in WithTagRows(ret.filter)}
          /\ \A g \in DOMAIN ret.counts :
                ret.counts[g] = Cardinality({q \in WithTagRows(ret.filter) : q.tag = g})
    /\ (/\ ret.op = "count_unique_tags"
        /\ \E k \in DOMAIN EnumFilters : WithKey(EnumFilters[k]) \in DOMAIN ret.filter) =>
          ret.count = Cardinality({q.tag : q \in WithTagRows(ret.filter)})

----------------------------------------------------------------------------
\* Queries on a filter the caller keeps: inp holds the caller's filter
\* dict, which the query receives by reference.

\* the filter keys whose value prepare_media_search_conditions replaces by
\* a one-element list when it is not a list, lines 344-347, 361-364, 438-439,
\* 443-444, 448-449, 453-454
MediaListKeys ==
    {WithKey(EnumFilters[k]) : k \in DOMAIN EnumFilters}
    \cup {WithoutKey(EnumFilters[k]) : k \in DOMAIN EnumFilters}
    \cup {"with_tags", "without_tags", "with_tags_like", "without_tags_like"}

\* the keys prepare_tag_counts_search_conditions treats so, lines 1147-1148
\* and 1157-1158
TagCountListKeys ==
    {WithKey(EnumFilters[k]) : k \in DOMAIN EnumFilters}
    \cup {WithoutKey(EnumFilters[k]) : k \in DOMAIN EnumFilters}

\* filter[key] = [filter[key]] for the keys whose value is not a list
Listified(filter, keys) ==
    [k \in DOMAIN filter |->
        IF k \in keys THEN ListArg(filter[k].items) ELSE filter[k]]

RECURSIVE SumSize(_)
SumSize(S) ==
    IF S = {} THEN 0
    ELSE LET r == CHOOSE x \in S : TRUE IN r.size + SumSize(S \ {r})

\* media_size, lines 528-531: SELECT sum(size); the sum of no rows is NULL
media_size(t, lk, filter) ==
    LET rows == Statement(t, lk, filter, <<>>)
    IN  IF rows = {} THEN Null ELSE Val(SumSize(rows))

CallSearchMedia ==
    /\ LET r == search_media(media, likes, inp.filter, "", "", loc.rng)
       IN  ret' = [op |-> "search_media", filter |-> inp.filter,
                   result |-> r.result]
    /\ inp' = [filter |-> Listified(inp.filter, MediaListKeys)]
    /\ UNCHANGED <<media, tags, likes, pc, loc>>

CallCountMedia ==
    /\ ret' = [op |-> "count_media", filter |-> inp.filter,
               count |-> count_media(media, likes, inp.filter)]
    /\ inp' = [filter |-> Listified(inp.filter, MediaListKeys)]
    /\ UNCHANGED <<media, tags, likes, pc, loc>>

CallMediaSize ==
    /\ ret' = [op |-> "media_size", filter |-> inp.filter,
               size |-> media_size(media, likes, inp.filter)]
    /\ inp' = [filter |-> Listified(inp.filter, MediaListKeys)]
    /\ UNCHANGED <<media, tags, likes, pc, loc>>

CallGetAdjacentMedia(medium) ==
    /\ LET r == get_adjacent_media(media, likes, medium, inp.filter, "", "")
       IN  ret' = [op |-> "get_adjacent_media", filter |-> inp.filter,
                   medium |-> medium, prev |-> r.prev, next |-> r.next]
    /\ inp' = [filter |-> Listified(inp.filter, MediaListKeys)]
    /\ UNCHANGED <<media, tags, likes, pc, loc>>

CallSearchTagCounts ==
    /\ ret' = [op |-> "search_tag_counts", filter |-> inp.filter,
               counts |-> search_tag_counts(media, tags, inp.filter)]
    /\ inp' = [filter |-> Listified(inp.filter, TagCountListKeys)]
    /\ UNCHANGED <<media, tags, likes, pc, loc>>

CallCountUniqueTags ==
    /\ ret' = [op |-> "count_unique_tags", filter |-> inp.filter,
               count |-> count_unique_tags(media, tags, inp.filter)]
    /\ inp' = [filter |-> Listified(inp.filter, TagCountListKeys)]
    /\ UNCHANGED <<media, tags, likes, pc, loc>>

\* media 1..MaxId, each absent or stored with a status and a size
SizeChoices ==
    {[present |-> FALSE, ct |-> 0, v |-> 0, st |-> 1]}
    \cup [present : {TRUE}, ct : {0}, v : {1, 2},
          st : {MediumStatus.ALLOWED, MediumStatus.FORBIDDEN}]

CallerFilters ==
    {<<>>,
     [with_statuses |-> OneArg(Allowed)],
     [with_statuses |-> ListArg(<<Allowed>>)],
     [with_statuses |-> OneArg(StrV("FAKE"))],
     [without_statuses |-> OneArg(Forbidden)],
     [with_protections |-> ListArg(<<StrV("NONE"), StrV("PRIVATE")>>)],
     [with_tags |-> OneArg("a")],
     [with_tags |-> ListArg(<<"a">>)],
     [without_tags_like |-> OneArg("a%")],
     [liked_by_user |-> "u1"]}

InitCaller ==
    /\ \E f \in [Ids -> SizeChoices] : media = NavTable(f)
    /\ \E S \in SUBSET ({1} \X {"a"}) : tags = TagFilterTable(S)
    /\ \E g \in [{"l1"} -> UserLikeChoices] : likes = UserLikeTable(g)
    /\ inp \in [filter : CallerFilters]
    /\ ret = NoRet
    /\ pc = <<>>
    /\ loc = [rng |-> 0]

NextCaller ==
    \/ ret = NoRet /\ CallSearchMedia
    \/ ret = NoRet /\ CallCountMedia
    \/ ret = NoRet /\ CallMediaSize
    \/ ret = NoRet /\ \E m \in Rows(media) : CallGetAdjacentMedia(m)
    \/ ret = NoRet /\ CallSearchTagCounts
    \/ ret = NoRet /\ CallCountUniqueTags

SpecCaller == InitCaller /\ [][NextCaller]_vars

\* C21: after a query returns, the caller's filter has the keys and the
\* values it had before the call.
C21_FilterUnchanged ==
    ret.op # "none" => inp.filter = ret.filter

\* C22: media_size returns an integer, the sum of the sizes of the media
\* the filter selects (0 when it selects none).
C22_MediaSizeIsSum ==
    ret.op = "media_size" => ret.size = Val(SumSize(View(ret.filter)))

----------------------------------------------------------------------------
\* Likes of the media 1..MaxId: likes are created and deleted, users and
\* media are deleted, and the media are listed in between.

InitLikes ==
    /\ media = SetToBag({PresentRow(i) : i \in Ids})
    /\ tags = EmptyBag
    /\ likes = EmptyBag
    /\ inp = <<>>
    /\ ret = NoRet
    /\ pc = <<>>
    /\ loc = [rng |-> 0]

NextLikes ==
    \/ \E id \in LikeIds, m \in Ids, u \in Users : CreateLike(id, m, u)
    \/ \E id \in LikeIds : DeleteLike(id)
    \/ \E u \in Users : DeleteUserLikes(u)
    \/ \E id \in Ids : DeleteMedium(id)
    \/ SearchMedia(<<>>, "", "")

SpecLikes == InitLikes /\ [][NextLikes]_vars

\* C28: the like_count of each medium search_media returns is the number
\* of like rows stored for that medium, and delete_user_likes(u) removes
\* the rows of user u and no other row.
C28_LikeCounts ==
    [][/\ ret'.op = "search_media" =>
            /\ ret'.out = "ok"
            /\ \A k \in DOMAIN ret'.result :
                  ret'.like_count[k] =
                      Cardinality({q \in Rows(likes') :
                                      q.medium_id = ret'.result[k].id})
       /\ ret'.op = "delete_user_likes" =>
            /\ Rows(likes') = {q \in Rows(likes) : q.user_id # ret'.user}
            /\ \A q \in Rows(likes') : CopiesIn(q, likes') = 1]_vars

\* a listing shows a medium with like_count 2 while the only two like rows
\* stored are two likes of the same user
C28_Witness ==
    /\ ret.op = "search_media"
    /\ \E k \in DOMAIN ret.result : ret.like_count[k] = 2
    /\ \A q \in Rows(likes) : q.user_id = "u1"
    /\ Cardinality(Rows(likes)) = 2

----------------------------------------------------------------------------
\* C29: every tag row and every like row refers to a medium id that is
\* present in the media table.
C29_ReferentialIntegrity ==
    \A q \in Rows(tags) \cup Rows(likes) : HasMedium(media, q.medium_id)

----------------------------------------------------------------------------
\* Two threads each run one seeded-random search on sqlite. The generator
\* of module random is shared by the process; a thread runs lines 557-569
\* as separate steps: random.seed(seed), eight random.randint(0, 31), and
\* random.seed(), each of them atomic. pc[t] is the step thread t is at,
\* inp[t] the sort it was called with and the starts it has drawn so far.

Threads == {"t1", "t2"}

\* the states random.seed() without argument leaves the generator in, as far
\* as the two threads are followed
Entropy == {0, 16}

InitRace ==
    /\ media = EmptyBag
    /\ tags = EmptyBag
    /\ likes = EmptyBag
    /\ inp = [t \in Threads |->
                 [sort |-> IF t = "t1" THEN "random:a" ELSE "random:b",
                  starts |-> <<>>]]
    /\ ret = NoRet
    /\ pc = [t \in Threads |-> "seed"]
    /\ \E n \in Entropy : loc = [rng |-> n]

\* line 557: random.seed(seed)
SeedGenerator(t) ==
    /\ pc[t] = "seed"
    /\ loc' = [rng |-> rng_seed(SeedOfSort(inp[t].sort))]
    /\ pc' = [pc EXCEPT ![t] = "draw"]
    /\ UNCHANGED <<media, tags, likes, inp, ret>>

\* lines 559-566: one pass of the loop, start = random.randint(0, 31)
DrawStart(t) ==
    /\ pc[t] = "draw"
    /\ LET start == rng_next(loc.rng)
           starts == Append(inp[t].starts, start)
       IN  /\ loc' = [rng |-> start]
           /\ inp' = [inp EXCEPT ![t].starts = starts]
           /\ pc' = [pc EXCEPT ![t] = IF Len(starts) = 8 THEN "reseed" ELSE "draw"]
    /\ UNCHANGED <<media, tags, likes, ret>>

\* line 569: random.seed() sets the generator from the system's entropy
ReseedGenerator(t) ==
    /\ pc[t] = "reseed"
    /\ \E n \in Entropy : loc' = [rng |-> n]
    /\ pc' = [pc EXCEPT ![t] = "done"]
    /\ UNCHANGED <<media, tags, likes, inp, ret>>

NextRace ==
    \/ \E t \in Threads : SeedGenerator(t)
    \/ \E t \in Threads : DrawStart(t)
    \/ \E t \in Threads : ReseedGenerator(t)

SpecRace == InitRace /\ [][NextRace]_vars

\* C30: under every interleaving of the two threads' steps, the starts a
\* call has drawn for its sort key are those its own seed determines.
C30_OwnSeedAlone ==
    \A t \in Threads :
        pc[t] \in {"reseed", "done"} =>
            inp[t].starts = randints(rng_seed(SeedOfSort(inp[t].sort)), 8)

============================================================================
